---- MODULE Spec2Model ----
(***************************************************************************)
(* A model of the TTL cache (src/lib/cache/cache-manager.ts) and of the    *)
(* token cipher (src/lib/security/token-encryption.ts).                    *)
(*                                                                         *)
(* JS strings used as cache keys are sequences of one-character strings.   *)
(* The clock is Date.now() in milliseconds.  The Map that backs the cache  *)
(* is a sequence of entries in insertion order, which is the order a JS    *)
(* Map iterates in and therefore the order a stable sort keeps among equal *)
(* expiry times.                                                           *)
(*                                                                         *)
(* The strings the cipher handles are sequences of Unicode code points and *)
(* buffers are sequences of bytes 0..255, so that UTF-8, hex and base64    *)
(* are computed.  AES-256-GCM and SHA-256 belong to the crypto library;    *)
(* they are modelled by small keyed functions that keep what the callers   *)
(* rely on: the ciphertext is as long as the plaintext, decryption with    *)
(* the same key and nonce inverts encryption, and final() throws unless    *)
(* the tag is the one computed from key, nonce and ciphertext.             *)
(*                                                                         *)
(* The Figma client (src/services/core/figma-client.ts) and the useFigma   *)
(* hook (src/hooks/core/use-figma.ts) work on that cache and cipher.  What *)
(* fetch does is the environment's choice: a 2xx response with a body, a   *)
(* non-2xx response, a rejection, an abort by the timeout, or a 2xx        *)
(* response whose body does not parse.  An operation of the client or the  *)
(* hook that awaits nothing else runs from its call to its settlement as   *)
(* one step.                                                               *)
(***************************************************************************)
EXTENDS Integers, Sequences, FiniteSets, TLC

VARIABLES
  cache,     \* CacheManager.cache, the Map in insertion order
  hits,      \* CacheManager.hits
  misses,    \* CacheManager.misses
  now,       \* Date.now()
  getCalls,  \* history: get() calls so far, by whether the key was live
  evicted,   \* history: the keys the capacity sweep of the last set() removed
  env,       \* process.env.ENCRYPTION_KEY
  enc,       \* history: the last call of TokenEncryption.encrypt
  dec,       \* history: the last call of TokenEncryption.decrypt since then
  configToken, \* FigmaClient.config.token
  storage,   \* localStorage['figma-token']
  hook,      \* the state of useFigma
  effect,    \* the auto-connect effect of useFigma: unmounted, pending, idle
  last,      \* history: the last operation of the client or the hook
  fetched,   \* history: per cache key, the last response stored from the network
  usageStats, \* AIProvider.usageStats
  ai,        \* history: the last call of AIProvider.generateCode
  errorReports, \* ErrorHandler.errorReports
  reported,   \* history: the number of reports made so far
  retry,     \* the call of ErrorHandler.handleAsync under way, or the last
  wizard,    \* the state of useWizard
  wizardConfig, \* config.persistState of the mounted wizard
  wizardStorage, \* localStorage[storageKey]
  wizardEffect, \* the persist effect of useWizard: unmounted, pending, idle
  wizardLast, \* history: the last handler of the wizard
  inFlight,  \* the call of connect or testConnection awaiting its response
  disconnected \* history: disconnect() ran and no connect or test call since

cacheVars == <<cache, hits, misses, now, getCalls, evicted>>

cipherVars == <<env, enc, dec>>

figmaVars == <<configToken, storage, hook, effect, last, fetched>>

aiVars == <<usageStats, ai>>

errVars == <<errorReports, reported, retry>>

wizVars == <<wizard, wizardConfig, wizardStorage, wizardEffect, wizardLast>>

\* the state outside the cache, the cipher, the Figma client and its hook
flightVars == <<inFlight, disconnected>>

\* the state outside the cache, the cipher and the hook
restVars == <<aiVars, errVars, wizVars>>

appVars == <<aiVars, errVars, wizVars, flightVars>>

vars == <<cacheVars, cipherVars, figmaVars, appVars>>

\* what the operations of the cache leave alone
notCache == <<cipherVars, figmaVars, appVars>>

\* what the operations of the cipher leave alone
notCipher == <<cacheVars, figmaVars, appVars>>

(***************************************************************************)
(* Bounds of the model.                                                    *)
(***************************************************************************)
\* the clock stops advancing past this many milliseconds
MaxClock == 600000

\* get() is called at most this many times in a run (hits + misses)
MaxGets == 2

(***************************************************************************)
(* Program constants.                                                      *)
(***************************************************************************)
\* cleanup(): if (this.cache.size > 1000)
MAX_ENTRIES == 1000

\* cleanup(): entries.slice(0, 100)
EVICT_COUNT == 100

\* calculateSize(): catch { return 1000 }
FALLBACK_SIZE == 1000

\* set(key, data, ttl = 3600)
DEFAULT_TTL == 3600

\* figma-client.ts getUser: this.cache.set(cacheKey, response, 300)
USER_TTL == 300

(***************************************************************************)
(* JS values stored in the cache.  A payload is a JS string, JS null, or   *)
(* an object JSON.stringify throws on (a cyclic object).                   *)
(***************************************************************************)
JsString(chars) == [kind |-> "string", chars |-> chars]

JsNull == [kind |-> "null", chars |-> <<>>]

JsCyclic == [kind |-> "cyclic", chars |-> <<>>]

\* what get() returns on a miss: the JS value null
Miss == JsNull

\* calculateSize: JSON.stringify(data).length, 1000 when stringify throws
calculateSize(data) ==
  CASE data.kind = "string" -> Len(data.chars) + 2
    [] data.kind = "object" -> Len(data.chars)
    [] data.kind = "null" -> 4
    [] OTHER -> FALLBACK_SIZE

(***************************************************************************)
(* Strings.                                                                *)
(***************************************************************************)
\* a variant of startsWith: String.prototype.includes in its place
startsWith_includes(key, prefix) ==
  \E i \in 1..(Len(key) + 1) :
    /\ i + Len(prefix) - 1 <= Len(key)
    /\ SubSeq(key, i, i + Len(prefix) - 1) = prefix

\* String.prototype.startsWith
startsWith(key, prefix) ==
  /\ Len(prefix) <= Len(key)
  /\ SubSeq(key, 1, Len(prefix)) = prefix

\* clear() called with no argument: prefix is undefined (no string has this
\* "character")
NoPrefix == <<"undefined">>

\* `!prefix`: undefined and the empty string are falsy
IsFalsyPrefix(prefix) == prefix = NoPrefix \/ prefix = <<>>

(***************************************************************************)
(* The Map<string, CacheEntry>.                                            *)
(***************************************************************************)
Keys(c) == {c[i].key : i \in 1..Len(c)}

\* Map.get: the entry, or the empty sequence standing for undefined
MapGet(c, key) == SelectSeq(c, LAMBDA e : e.key = key)

MapHas(c, key) == key \in Keys(c)

\* Map.set: an existing key keeps its place in the iteration order
MapSet(c, entry) ==
  IF MapHas(c, entry.key)
  THEN [i \in 1..Len(c) |-> IF c[i].key = entry.key THEN entry ELSE c[i]]
  ELSE Append(c, entry)

\* Map.delete of every key in a set
MapDeleteAll(c, keys) == SelectSeq(c, LAMBDA e : e.key \notin keys)

MapDelete(c, key) == MapDeleteAll(c, {key})

(***************************************************************************)
(* CacheManager's private helpers.                                         *)
(***************************************************************************)
\* a variant of isExpired: <= in place of <
isExpired_inclusive(entry, t) == entry.expires <= t

\* isExpired: entry.expires < Date.now()
isExpired(entry, t) == entry.expires < t

SetMin(S) == CHOOSE m \in S : \A x \in S : m <= x

\* entries.sort((a, b) => a[1].expires - b[1].expires): Array.prototype.sort
\* is stable, so the result is ascending in expires and keeps the given
\* order among equal expires: the buckets of equal expires, smallest first.
RECURSIVE SortBuckets(_, _)
SortBuckets(entries, values) ==
  IF values = {} THEN <<>>
  ELSE LET m == SetMin(values)
       IN SelectSeq(entries, LAMBDA e : e.expires = m)
            \o SortBuckets(entries, values \ {m})

\* a variant of sortByExpires: the sort left out, so that slice(0, 100)
\* takes the entries inserted first
sortByExpires_unsorted(entries) == entries

sortByExpires(entries) ==
  SortBuckets(entries, {entries[i].expires : i \in 1..Len(entries)})

\* entries.slice(0, n)
slice0(entries, n) ==
  SubSeq(entries, 1, IF Len(entries) < n THEN Len(entries) ELSE n)

\* cleanup, first half: the keys whose entry has expires < now
expiredKeys(c, t) == {c[i].key : i \in {j \in 1..Len(c) : c[j].expires < t}}

\* a variant of capacityKeys: the size test off by one
capacityKeys_offByOne(c) ==
  IF Len(c) > MAX_ENTRIES + 1
  THEN LET toRemove == slice0(c, EVICT_COUNT)
       IN {toRemove[i].key : i \in 1..Len(toRemove)}
  ELSE {}

\* cleanup, second half: the keys of the first 100 entries by expires when
\* more than 1000 entries are left
capacityKeys(c) ==
  IF Len(c) > MAX_ENTRIES
  THEN LET toRemove == slice0(sortByExpires(c), EVICT_COUNT)
       IN {toRemove[i].key : i \in 1..Len(toRemove)}
  ELSE {}

cleanup(c, t) ==
  LET purged == MapDeleteAll(c, expiredKeys(c, t))
  IN MapDeleteAll(purged, capacityKeys(purged))

(***************************************************************************)
(* The public operations as functions of the cache and the clock.          *)
(***************************************************************************)
newEntry(key, data, ttl, t) ==
  [key |-> key, data |-> data, expires |-> t + ttl * 1000,
   size |-> calculateSize(data)]

\* set: this.cache.set(key, entry); this.cleanup()
cacheAfterSet(c, key, data, ttl, t) ==
  cleanup(MapSet(c, newEntry(key, data, ttl, t)), t)

\* a variant of get: the expired branch drops every expired entry
getResult_sweeps(c, h, m, key, t) ==
  LET found == SelectSeq(c, LAMBDA e : e.key = key)
  IN IF found = <<>>
     THEN [cache |-> c, hits |-> h, misses |-> m + 1,
           value |-> [kind |-> "null", chars |-> <<>>]]
     ELSE IF found[1].expires < t
     THEN [cache |-> SelectSeq(c, LAMBDA e : ~(e.expires < t)), hits |-> h,
           misses |-> m + 1, value |-> [kind |-> "null", chars |-> <<>>]]
     ELSE [cache |-> c, hits |-> h + 1, misses |-> m, value |-> found[1].data]

\* a variant of get: the expired branch forgets this.misses++
getResult_uncounted(c, h, m, key, t) ==
  LET found == SelectSeq(c, LAMBDA e : e.key = key)
  IN IF found = <<>>
     THEN [cache |-> c, hits |-> h, misses |-> m + 1,
           value |-> [kind |-> "null", chars |-> <<>>]]
     ELSE IF found[1].expires < t
     THEN [cache |-> SelectSeq(c, LAMBDA e : e.key # key), hits |-> h,
           misses |-> m, value |-> [kind |-> "null", chars |-> <<>>]]
     ELSE [cache |-> c, hits |-> h + 1, misses |-> m, value |-> found[1].data]

\* get: [cache, hits, misses, value] after the call
getResult(c, h, m, key, t) ==
  LET found == MapGet(c, key)
  IN IF found = <<>>
     THEN [cache |-> c, hits |-> h, misses |-> m + 1, value |-> Miss]
     ELSE IF isExpired(found[1], t)
     THEN [cache |-> MapDelete(c, key), hits |-> h, misses |-> m + 1,
           value |-> Miss]
     ELSE [cache |-> c, hits |-> h + 1, misses |-> m, value |-> found[1].data]

\* a variant of has: the expiry test left out
hasResult_ignoresExpiry(c, key, t) == SelectSeq(c, LAMBDA e : e.key = key) # <<>>

\* has: entry ? !this.isExpired(entry) : false
hasResult(c, key, t) ==
  LET found == MapGet(c, key)
  IN IF found = <<>> THEN FALSE ELSE ~isExpired(found[1], t)

\* clear(prefix?)
cacheAfterClear(c, prefix) ==
  IF IsFalsyPrefix(prefix) THEN <<>>
  ELSE LET keysToDelete == {k \in Keys(c) : startsWith(k, prefix)}
       IN MapDeleteAll(c, keysToDelete)

\* totalSize += entry.size over entries[lo..hi] (halved, to keep the
\* evaluation shallow on a thousand entries)
RECURSIVE SumSizes(_, _, _)
SumSizes(entries, lo, hi) ==
  IF lo > hi THEN 0
  ELSE IF lo = hi THEN entries[lo].size
  ELSE LET mid == (lo + hi) \div 2
       IN SumSizes(entries, lo, mid) + SumSizes(entries, mid + 1, hi)

\* hits / totalRequests as an exact fraction; the literal 0 is 0/1
hitRateOf(h, m) ==
  LET totalRequests == h + m
  IN IF totalRequests > 0 THEN [num |-> h, den |-> totalRequests]
     ELSE [num |-> 0, den |-> 1]

\* getStats (memoryUsage is the host's heap and is not part of the cache)
statsOf(c, h, m, t) ==
  LET valid == SelectSeq(c, LAMBDA e : ~isExpired(e, t))
  IN [size |-> SumSizes(valid, 1, Len(valid)), hitRate |-> hitRateOf(h, m),
      entries |-> Len(valid)]

(***************************************************************************)
(* TokenEncryption: bytes, encodings and the crypto library.               *)
(***************************************************************************)
\* private static readonly IV_LENGTH = 12
IV_LENGTH == 12

\* private static readonly TAG_LENGTH = 16
TAG_LENGTH == 16

Min2(a, b) == IF a < b THEN a ELSE b

Max2(a, b) == IF a > b THEN a ELSE b

\* Buffer.concat of a sequence of buffers
RECURSIVE Concat(_)
Concat(bufs) == IF bufs = <<>> THEN <<>> ELSE Head(bufs) \o Concat(Tail(bufs))

\* Buffer.prototype.subarray(start, end): a negative index counts from the
\* end, and both are clamped to the buffer
subarray(buf, start, end) ==
  LET clamp(i) == IF i < 0 THEN Max2(Len(buf) + i, 0) ELSE Min2(i, Len(buf))
  IN IF clamp(start) < clamp(end)
     THEN SubSeq(buf, clamp(start) + 1, clamp(end))
     ELSE <<>>

\* subarray(start): to the end of the buffer
subarrayFrom(buf, start) == subarray(buf, start, Len(buf))

\* the UTF-8 bytes of one code point (up to three bytes: the BMP)
utf8Bytes(cp) ==
  IF cp < 128 THEN <<cp>>
  ELSE IF cp < 2048 THEN <<192 + (cp \div 64), 128 + (cp % 64)>>
  ELSE <<224 + (cp \div 4096), 128 + ((cp \div 64) % 64), 128 + (cp % 64)>>

\* Buffer.from(str, 'utf8') / cipher.update(token, 'utf8', ...)
utf8Encode(str) == Concat([i \in 1..Len(str) |-> utf8Bytes(str[i])])

IsContinuation(b) == b >= 128 /\ b < 192

\* the 'utf8' output encoding of decipher.update / final: a well-formed
\* sequence gives its code point, any other byte gives U+FFFD
RECURSIVE utf8Decode(_)
utf8Decode(bytes) ==
  IF bytes = <<>> THEN <<>>
  ELSE LET b == bytes[1]
       IN IF b < 128 THEN <<b>> \o utf8Decode(Tail(bytes))
          ELSE IF /\ b >= 194 /\ b < 224 /\ Len(bytes) >= 2
                  /\ IsContinuation(bytes[2])
          THEN <<(b - 192) * 64 + (bytes[2] - 128)>>
                 \o utf8Decode(subarrayFrom(bytes, 2))
          ELSE IF /\ b >= 224 /\ b < 240 /\ Len(bytes) >= 3
                  /\ IsContinuation(bytes[2]) /\ IsContinuation(bytes[3])
                  /\ (b - 224) * 4096 + (bytes[2] - 128) * 64 >= 2048
          THEN <<(b - 224) * 4096 + (bytes[2] - 128) * 64 + (bytes[3] - 128)>>
                 \o utf8Decode(subarrayFrom(bytes, 3))
          ELSE <<65533>> \o utf8Decode(Tail(bytes))

\* '0123456789abcdef'
HexDigits == <<48, 49, 50, 51, 52, 53, 54, 55, 56, 57, 97, 98, 99, 100, 101, 102>>

\* the 'hex' output encoding of cipher.update / final
hexEncode(bytes) ==
  Concat([i \in 1..Len(bytes) |->
            <<HexDigits[(bytes[i] \div 16) + 1], HexDigits[(bytes[i] % 16) + 1]>>])

HexValue(c) == CHOOSE v \in 0..15 : HexDigits[v + 1] = c

\* Buffer.from(str, 'utf8'): what Buffer.from(str) gives without an encoding
hexDecode_asUtf8(str) == utf8Encode(str)

\* Buffer.from(str, 'hex') of the lower-case hex string hexEncode gives
hexDecode(str) ==
  [i \in 1..(Len(str) \div 2) |->
     HexValue(str[2 * i - 1]) * 16 + HexValue(str[2 * i])]

\* 'A'..'Z', 'a'..'z', '0'..'9', '+', '/'
Base64Chars ==
  <<65, 66, 67, 68, 69, 70, 71, 72, 73, 74, 75, 76, 77, 78, 79, 80, 81, 82,
    83, 84, 85, 86, 87, 88, 89, 90, 97, 98, 99, 100, 101, 102, 103, 104, 105,
    106, 107, 108, 109, 110, 111, 112, 113, 114, 115, 116, 117, 118, 119, 120,
    121, 122, 48, 49, 50, 51, 52, 53, 54, 55, 56, 57, 43, 47>>

\* '='
Base64Pad == <<61>>

\* buf.toString('base64'): three bytes give four characters, the last
\* group is padded with '='
RECURSIVE base64Encode(_)
base64Encode(bytes) ==
  LET ch(v) == <<Base64Chars[v + 1]>>
  IN IF bytes = <<>> THEN <<>>
     ELSE IF Len(bytes) = 1
     THEN ch(bytes[1] \div 4) \o ch((bytes[1] % 4) * 16)
            \o Base64Pad \o Base64Pad
     ELSE IF Len(bytes) = 2
     THEN ch(bytes[1] \div 4)
            \o ch((bytes[1] % 4) * 16 + (bytes[2] \div 16))
            \o ch((bytes[2] % 16) * 4) \o Base64Pad
     ELSE ch(bytes[1] \div 4)
            \o ch((bytes[1] % 4) * 16 + (bytes[2] \div 16))
            \o ch((bytes[2] % 16) * 4 + (bytes[3] \div 64))
            \o ch(bytes[3] % 64)
            \o base64Encode(subarrayFrom(bytes, 3))

\* the value of a base64 character ('-' and '_' count as '+' and '/'),
\* -1 for any other character
Base64Value(c) ==
  IF c >= 65 /\ c <= 90 THEN c - 65
  ELSE IF c >= 97 /\ c <= 122 THEN c - 71
  ELSE IF c >= 48 /\ c <= 57 THEN c + 4
  ELSE IF c = 43 \/ c = 45 THEN 62
  ELSE IF c = 47 \/ c = 95 THEN 63
  ELSE -1

\* Buffer.from(str, 'base64'): never throws; characters outside the
\* alphabet are skipped, decoding stops at the first '=', and every full
\* eight bits of the remaining characters give a byte
base64Decode(str) ==
  LET pads == {i \in 1..Len(str) : str[i] = Base64Pad[1]}
      stop == IF pads = {} THEN Len(str)
              ELSE (CHOOSE i \in pads : \A j \in pads : i <= j) - 1
      kept == SelectSeq(SubSeq(str, 1, stop), LAMBDA c : Base64Value(c) >= 0)
      v == [i \in 1..Len(kept) |-> Base64Value(kept[i])]
      byteAt(k) ==
        LET g == 4 * ((k - 1) \div 3)
            r == (k - 1) % 3
        IN IF r = 0 THEN v[g + 1] * 4 + (v[g + 2] \div 16)
           ELSE IF r = 1 THEN (v[g + 2] % 16) * 16 + (v[g + 3] \div 4)
           ELSE (v[g + 3] % 4) * 64 + v[g + 4]
  IN [k \in 1..((Len(kept) * 6) \div 8) |-> byteAt(k)]

\* sum of i * seq[i], the mixing step of the stand-ins below
RECURSIVE WeightedSum(_, _)
WeightedSum(seq, i) ==
  IF i > Len(seq) THEN 0 ELSE (i + 2) * seq[i] + WeightedSum(seq, i + 1)

\* createHash('sha256').update(secret).digest(): the key as one number
sha256(secret) == (7 + 31 * Len(secret) + WeightedSum(secret, 1)) % 65521

\* what the nonce contributes to the key stream and the tag
IvMix(iv) == WeightedSum(iv, 1) % 256

\* the key stream AES-GCM adds to byte i of the text under (key, nonce)
KeyStream(key, ivMix, i) == (key + ivMix + 97 * i) % 256

\* cipher.update + cipher.final: as many bytes out as in
gcmEncrypt(key, iv, plain) ==
  LET ivMix == IvMix(iv)
  IN [i \in 1..Len(plain) |-> (plain[i] + KeyStream(key, ivMix, i)) % 256]

\* decipher.update + decipher.final, when the tag is accepted
gcmDecrypt(key, iv, encrypted) ==
  LET ivMix == IvMix(iv)
  IN [i \in 1..Len(encrypted) |->
        (encrypted[i] + 256 - KeyStream(key, ivMix, i)) % 256]

\* cipher.getAuthTag(): 16 bytes computed from key, nonce and ciphertext
gcmTag(key, iv, encrypted) ==
  LET ivMix == IvMix(iv)
      textMix == WeightedSum(encrypted, 1) % 256
  IN [j \in 1..TAG_LENGTH |->
        (key * (j + 1) + (2 * j + 1) * ivMix + (2 * j + 3) * textMix
           + 29 * j * Len(encrypted) + 13 * j * Len(iv)) % 256]

\* the tag lengths setAuthTag accepts for GCM
ValidTagLengths == {4, 8, 12, 13, 14, 15, 16}

\* a variant of gcmRejects: final() not comparing the tag
gcmRejects_unauthenticated(key, iv, encrypted, authTag) ==
  \/ Len(iv) = 0
  \/ Len(authTag) \notin ValidTagLengths

\* createDecipheriv, setAuthTag or final throws: an empty nonce, a tag of
\* a length GCM does not have, or a tag that is not the computed one
\* (shortened to the length given)
gcmRejects(key, iv, encrypted, authTag) ==
  \/ Len(iv) = 0
  \/ Len(authTag) \notin ValidTagLengths
  \/ authTag # SubSeq(gcmTag(key, iv, encrypted), 1, Len(authTag))

(***************************************************************************)
(* TokenEncryption.                                                        *)
(***************************************************************************)
\* process.env.ENCRYPTION_KEY is not set
Unset == <<-1>>

\* 'figma-converter-dev-key-2024'
FallbackKey ==
  <<102, 105, 103, 109, 97, 45, 99, 111, 110, 118, 101, 114, 116, 101, 114,
    45, 100, 101, 118, 45, 107, 101, 121, 45, 50, 48, 50, 52>>

\* getEncryptionKey: `if (keyFromEnv)` fails for undefined and for ''
getEncryptionKey(keyFromEnv) ==
  IF keyFromEnv # Unset /\ keyFromEnv # <<>>
  THEN sha256(keyFromEnv)
  ELSE sha256(FallbackKey)

\* encrypt(token) with nonce iv; throws: the crypto library throws inside
\* the try block.  [value, failed]: what is returned, and whether the catch
\* block returned it
encrypt(token, keyFromEnv, iv, throws) ==
  IF throws THEN [value |-> token, failed |-> TRUE]
  ELSE LET key == getEncryptionKey(keyFromEnv)
           encrypted == hexEncode(gcmEncrypt(key, iv, utf8Encode(token)))
           authTag == gcmTag(key, iv, hexDecode(encrypted))
           combined == Concat(<<iv, hexDecode(encrypted), authTag>>)
       IN [value |-> base64Encode(combined), failed |-> FALSE]

\* a variant of encryptedPart: the tag left on the ciphertext
encryptedPart_keepsTag(combined) == subarrayFrom(combined, IV_LENGTH)

\* combined.subarray(0, IV_LENGTH)
ivPart(combined) == subarray(combined, 0, IV_LENGTH)

\* combined.subarray(-TAG_LENGTH)
authTagPart(combined) == subarrayFrom(combined, 0 - TAG_LENGTH)

\* combined.subarray(IV_LENGTH, -TAG_LENGTH)
encryptedPart(combined) == subarray(combined, IV_LENGTH, 0 - TAG_LENGTH)

\* decrypt(encryptedToken)
decrypt(encryptedToken, keyFromEnv, throws) ==
  LET key == getEncryptionKey(keyFromEnv)
      combined == base64Decode(encryptedToken)
      iv == ivPart(combined)
      authTag == authTagPart(combined)
      encrypted == encryptedPart(combined)
  IN IF throws \/ gcmRejects(key, iv, encrypted, authTag)
     THEN [value |-> encryptedToken, failed |-> TRUE]
     ELSE [value |-> utf8Decode(gcmDecrypt(key, iv, encrypted)),
           failed |-> FALSE]

\* a variant of isEncrypted: the minimum without the byte of ciphertext
isEncrypted_noPayloadByte(token) ==
  Len(base64Decode(token)) >= IV_LENGTH + TAG_LENGTH

\* isEncrypted(token): Buffer.from(token, 'base64') does not throw, so the
\* catch block is never entered
isEncrypted(token) ==
  LET decoded == base64Decode(token)
      minimumLength == IV_LENGTH + TAG_LENGTH + 1
  IN Len(decoded) >= minimumLength

\* no call yet
NoCall ==
  [called |-> FALSE, input |-> <<>>, iv |-> <<>>, secret |-> Unset,
   threw |-> FALSE, failed |-> FALSE, out |-> <<>>]

CipherInit ==
  /\ env = Unset
  /\ enc = NoCall
  /\ dec = NoCall

\* the environment is configured with another ENCRYPTION_KEY
SetEnv(keyFromEnv) ==
  /\ env' = keyFromEnv
  /\ UNCHANGED <<enc, dec, notCipher>>

\* TokenEncryption.encrypt(token); randomBytes gives iv
Encrypt(token, iv, throws) ==
  /\ LET r == encrypt(token, env, iv, throws)
     IN enc' = [called |-> TRUE, input |-> token, iv |-> iv, secret |-> env,
                threw |-> throws, failed |-> r.failed, out |-> r.value]
  /\ dec' = NoCall
  /\ UNCHANGED <<env, notCipher>>

\* TokenEncryption.decrypt(encryptedToken)
Decrypt(encryptedToken, throws) ==
  /\ LET r == decrypt(encryptedToken, env, throws)
     IN dec' = [called |-> TRUE, input |-> encryptedToken, iv |-> <<>>,
                secret |-> env, threw |-> throws, failed |-> r.failed,
                out |-> r.value]
  /\ UNCHANGED <<env, enc, notCipher>>

\* TokenEncryption.isEncrypted(token) reads and changes nothing
IsEncrypted(token) ==
  /\ isEncrypted(token) \in BOOLEAN
  /\ UNCHANGED vars

(***************************************************************************)
(* Inputs.                                                                 *)
(***************************************************************************)
\* 'figma-user' (figma-client.ts getUser)
KeyFigmaUser == <<"f","i","g","m","a","-","u","s","e","r">>

\* `figma-file-${fileKey}` with fileKey 'A' (figma-client.ts getFile)
KeyFigmaFile == <<"f","i","g","m","a","-","f","i","l","e","-","A">>

\* `ai-code-${hash}` with hash '1' (ai-provider.ts generateCode)
KeyAiCode == <<"a","i","-","c","o","d","e","-","1">>

InputKeys == {KeyFigmaUser, KeyFigmaFile, KeyAiCode}

PrefixFigma == <<"f","i","g","m","a","-">>

PrefixAiCode == <<"a","i","-","c","o","d","e","-">>

\* differs from PrefixFigma in case only
PrefixFigmaUpper == <<"F","i","g","m","a","-">>

InputPrefixes == {NoPrefix, PrefixFigma, PrefixAiCode, PrefixFigmaUpper}

DataOk == JsString(<<"o","k">>)

InputData == {DataOk, JsNull}

InputTTLs == {USER_TTL, DEFAULT_TTL}

\* the clock advances by a whole USER_TTL, so that it can stand exactly on
\* an expiry time and then pass it
TickSteps == {USER_TTL * 1000}

(***************************************************************************)
(* The values of the Figma client and of the hook.                         *)
(***************************************************************************)
\* a JS object, by its JSON text
JsObject(json) == [kind |-> "object", chars |-> json]

\* the JS value undefined
JsUndefined == [kind |-> "undefined", chars |-> <<>>]

\* null and undefined where a string may stand (error, error?)
Null == "null"

Undefined == "undefined"

\* config.token before any setToken
NoToken == <<-1>>

\* localStorage.getItem gives null
NoItem == <<-1>>

\* extractFileKey gives null / fileKey is left out of the result
NoFileKey == <<"null">>

\* connectionResult: null
NullResult == [null |-> TRUE]

\* initialState of useFigma
initialState ==
  [isConnected |-> FALSE, isLoading |-> FALSE, error |-> Null,
   fileData |-> JsNull, connectionResult |-> NullResult]

\* no operation yet.  op: the operation; ok: it resolved with a value;
\* value: that value; error: the message it failed with; requested: fetch
\* was called; sent: the X-Figma-Token header; handled: the actions
\* ErrorHandler.handle was called with; fileKey: the file key in the
\* result; toast: the title of the toast shown; auto: the effect made the
\* call; returned: what the hook's operation resolved to; url: the URL it
\* was called with; token: the token connect was called with;
\* wasConnected: state.isConnected when the operation began; outcome: what
\* fetch did, when it was called
NoOp ==
  [op |-> "none", ok |-> FALSE, value |-> JsUndefined, error |-> Undefined,
   requested |-> FALSE, sent |-> NoToken, handled |-> <<>>,
   fileKey |-> NoFileKey, toast |-> "none", auto |-> FALSE,
   returned |-> FALSE, url |-> <<>>, token |-> NoToken,
   wasConnected |-> FALSE,
   outcome |-> [kind |-> "none", body |-> JsUndefined, status |-> "",
                statusText |-> "", message |-> ""]]

FigmaInit ==
  /\ configToken = NoToken
  /\ storage = NoItem
  /\ hook = initialState
  /\ effect = "unmounted"
  /\ last = NoOp
  /\ fetched = {}

(***************************************************************************)
(* The state after construction, and the operations.                       *)
(***************************************************************************)
CacheInit ==
  /\ cache = <<>>
  /\ hits = 0
  /\ misses = 0
  /\ now = 0
  /\ getCalls = [live |-> 0, dead |-> 0]
  /\ evicted = {}

\* AIProvider: usageStats as constructed, totalCost in 1/100000 dollar,
\* averageResponseTime as a fraction
AIInit ==
  /\ usageStats = [totalRequests |-> 0, totalTokens |-> 0, totalCost |-> 0,
                   requestsByModel |-> [model \in {"gpt-4o"} |-> 0],
                   averageResponseTime |-> [num |-> 0, den |-> 1]]
  /\ ai = [op |-> "none", key |-> <<>>, completions |-> 0, ok |-> FALSE,
           returned |-> JsNull, content |-> JsNull]

\* config.steps
ConfigSteps ==
  <<[id |-> "a", isOptional |-> "undefined"],
    [id |-> "b", isOptional |-> "true"]>>

\* localStorage.getItem(storageKey) gives null
NoSaved == <<>>

\* step.data
NoData == [defined |-> FALSE, fields |-> <<>>]

Data(fields) == [defined |-> TRUE, fields |-> fields]

\* { ...step.data, ...data }
mergeData(old, data) == Data(data @@ old.fields)

\* initialSteps.map(step => ({ ...step, isCompleted: false, isValid: false }))
freshSteps ==
  [i \in 1..Len(ConfigSteps) |->
     [id |-> ConfigSteps[i].id, isOptional |-> ConfigSteps[i].isOptional,
      isCompleted |-> FALSE, isValid |-> FALSE, data |-> NoData]]

\* initialState of the useState initializer
initialWizard ==
  [steps |-> freshSteps, currentStepIndex |-> 0, isLoading |-> FALSE,
   canGoNext |-> "false", canGoPrevious |-> FALSE, isCompleted |-> FALSE,
   progress |-> 0]

WizardInit ==
  /\ wizard = initialWizard
  /\ wizardConfig = [persistState |-> FALSE]
  /\ wizardStorage = NoSaved
  /\ wizardEffect = "unmounted"
  /\ wizardLast = "none"

\* no call of handleAsync yet
NoRetry ==
  [pc |-> "idle", attempt |-> 0, maxRetries |-> 0, retryDelay |-> 0,
   fallback |-> FALSE, options |-> <<>>, invocations |-> <<>>,
   waits |-> <<>>, fallbackCalls |-> 0, lastError |-> Null, result |-> Null,
   calls |-> 0]

ErrInit ==
  /\ errorReports = <<>>
  /\ reported = 0
  /\ retry = NoRetry

\* no call in flight
NoFlight == [op |-> "none", token |-> <<-1>>, sent |-> <<-1>>]

FlightInit ==
  /\ inFlight = NoFlight
  /\ disconnected = FALSE

AppInit == AIInit /\ ErrInit /\ WizardInit /\ FlightInit

Init == CacheInit /\ CipherInit /\ FigmaInit /\ AppInit

\* a key is live when the cache holds an entry for it whose expiry time has
\* not passed
Live(key) == \E i \in 1..Len(cache) : cache[i].key = key /\ cache[i].expires >= now

Get(key) ==
  /\ hits + misses < MaxGets
  /\ LET r == getResult(cache, hits, misses, key, now)
     IN /\ cache' = r.cache
        /\ hits' = r.hits
        /\ misses' = r.misses
  /\ getCalls' = IF Live(key) THEN [getCalls EXCEPT !.live = @ + 1]
                 ELSE [getCalls EXCEPT !.dead = @ + 1]
  /\ evicted' = {}
  /\ UNCHANGED <<now, notCache>>

Set(key, data, ttl) ==
  /\ cache' = cacheAfterSet(cache, key, data, ttl, now)
  /\ LET inserted == MapSet(cache, newEntry(key, data, ttl, now))
     IN evicted' = capacityKeys(MapDeleteAll(inserted, expiredKeys(inserted, now)))
  /\ UNCHANGED <<hits, misses, now, getCalls, notCache>>

Delete(key) ==
  /\ cache' = MapDelete(cache, key)
  /\ evicted' = {}
  /\ UNCHANGED <<hits, misses, now, getCalls, notCache>>

Clear(prefix) ==
  /\ cache' = cacheAfterClear(cache, prefix)
  /\ evicted' = {}
  /\ UNCHANGED <<hits, misses, now, getCalls, notCache>>

\* has and getStats read the cache and the clock and change nothing
Has(key) ==
  /\ hasResult(cache, key, now) \in BOOLEAN
  /\ UNCHANGED vars

GetStats ==
  /\ statsOf(cache, hits, misses, now).entries <= Len(cache)
  /\ UNCHANGED vars

Tick(d) ==
  /\ now + d <= MaxClock
  /\ now' = now + d
  /\ UNCHANGED <<cache, hits, misses, getCalls, evicted, notCache>>

Next ==
  \/ \E k \in InputKeys : Get(k)
  \/ \E k \in InputKeys, d \in InputData, ttl \in InputTTLs : Set(k, d, ttl)
  \/ \E k \in InputKeys : Delete(k)
  \/ \E p \in InputPrefixes : Clear(p)
  \/ \E k \in InputKeys : Has(k)
  \/ GetStats
  \/ \E d \in TickSteps : Tick(d)

Spec == Init /\ [][Next]_vars

(***************************************************************************)
(* A cache that already holds MAX_ENTRIES entries: the state after         *)
(* MAX_ENTRIES calls of set with distinct keys at clock 0 on a new cache   *)
(* (no entry has expired and the size never exceeded MAX_ENTRIES, so no    *)
(* cleanup removed anything).  Every 20th entry was set with USER_TTL, the *)
(* others with DEFAULT_TTL, so expiry times are not in insertion order and *)
(* fewer than EVICT_COUNT entries carry the smaller expiry time.           *)
(***************************************************************************)
DigitChars == <<"0","1","2","3","4","5","6","7","8","9">>

\* i as four decimal digits: the keys '0001' .. '1000'
Digits4(i) ==
  <<DigitChars[((i \div 1000) % 10) + 1], DigitChars[((i \div 100) % 10) + 1],
    DigitChars[((i \div 10) % 10) + 1], DigitChars[(i % 10) + 1]>>

BulkKey(i) == Digits4(i)

BulkTTL(i) == IF i % 20 = 0 THEN USER_TTL ELSE DEFAULT_TTL

FullCache ==
  [i \in 1..MAX_ENTRIES |-> newEntry(BulkKey(i), DataOk, BulkTTL(i), 0)]

InitFull ==
  /\ cache = FullCache
  /\ hits = 0
  /\ misses = 0
  /\ now = 0
  /\ getCalls = [live |-> 0, dead |-> 0]
  /\ evicted = {}
  /\ CipherInit
  /\ FigmaInit
  /\ AppInit

\* a key the full cache holds with the smaller expiry time
KeyBulk == BulkKey(140)

NextFull ==
  \/ \E k \in {KeyFigmaUser, KeyBulk} : Get(k)
  \/ \E ttl \in InputTTLs : Set(KeyFigmaUser, DataOk, ttl)
  \/ Delete(KeyBulk)
  \/ Clear(PrefixFigma)
  \/ Has(KeyFigmaUser)
  \/ GetStats
  \/ \E d \in TickSteps : Tick(d)

SpecFull == InitFull /\ [][NextFull]_vars

(***************************************************************************)
(* The cipher on its own.                                                  *)
(***************************************************************************)
\* 'prod-secret'
SecretProd == <<112, 114, 111, 100, 45, 115, 101, 99, 114, 101, 116>>

InputSecrets == {Unset, SecretProd}

\* 'figd_abc123'
TokenFigd == <<102, 105, 103, 100, 95, 97, 98, 99, 49, 50, 51>>

\* '', 'a', a two-byte and a three-byte character, and a Figma token
InputTokens == {<<>>, <<97>>, <<233, 8364>>, TokenFigd}

\* two values of randomBytes(12)
InputIVs ==
  {[i \in 1..IV_LENGTH |-> 16 * i], [i \in 1..IV_LENGTH |-> 255 - 7 * i]}

\* a ciphertext with one base64 character of its tag replaced
Tampered(str) ==
  IF Len(str) < 8 THEN str
  ELSE [str EXCEPT ![Len(str) - 4] = IF @ = 65 THEN 66 ELSE 65]

\* a ciphertext followed by '!', a character outside the base64 alphabet
WithBang(str) == str \o <<33>>

\* a ciphertext cut to its first 24 characters (18 bytes)
Truncated(str) == SubSeq(str, 1, Min2(Len(str), 24))

\* what is handed to decrypt: what encrypt returned, as it is, damaged or
\* cut short, or a token as it is
DecryptInputs ==
  (IF enc.called
   THEN {enc.out, Tampered(enc.out), WithBang(enc.out), Truncated(enc.out)}
   ELSE {}) \cup InputTokens

NextCipher ==
  \/ \E k \in InputSecrets : SetEnv(k)
  \/ \E t \in InputTokens, iv \in InputIVs, throws \in BOOLEAN :
       Encrypt(t, iv, throws)
  \/ \E t \in DecryptInputs, throws \in BOOLEAN : Decrypt(t, throws)
  \/ \E t \in DecryptInputs : IsEncrypted(t)

SpecCipher == Init /\ [][NextCipher]_vars

(***************************************************************************)
(* FigmaClient.                                                            *)
(***************************************************************************)
\* config.cacheEnabled: true by the constructor's defaults, and the
\* exported instance is built without a config
cacheEnabled == TRUE

\* the TTL getFile stores a response with
FILE_TTL == 3600

\* `if (value)`: null, undefined and '' are falsy
IsTruthy(v) ==
  \/ v.kind = "object"
  \/ v.kind = "cyclic"
  \/ (v.kind = "string" /\ v.chars # <<>>)

\* [a-zA-Z0-9]
Alnum ==
  {"a", "b", "c", "d", "e", "f", "g", "h", "i", "j", "k", "l", "m", "n",
   "o", "p", "q", "r", "s", "t", "u", "v", "w", "x", "y", "z", "A", "B",
   "C", "D", "E", "F", "G", "H", "I", "J", "K", "L", "M", "N", "O", "P",
   "Q", "R", "S", "T", "U", "V", "W", "X", "Y", "Z", "0", "1", "2", "3",
   "4", "5", "6", "7", "8", "9"}

\* 'figma.com/file/', 'figma.com/design/', 'figma.com/proto/'
PatternFile == <<"f", "i", "g", "m", "a", ".", "c", "o", "m", "/", "f", "i", "l", "e", "/">>

PatternDesign ==
  <<"f", "i", "g", "m", "a", ".", "c", "o", "m", "/", "d", "e", "s", "i", "g", "n", "/">>

PatternProto ==
  <<"f", "i", "g", "m", "a", ".", "c", "o", "m", "/", "p", "r", "o", "t", "o", "/">>

\* the literal stands at place i of url and a character of the group follows
MatchAt(url, literal, i) ==
  /\ i + Len(literal) <= Len(url)
  /\ SubSeq(url, i, i + Len(literal) - 1) = literal
  /\ url[i + Len(literal)] \in Alnum

\* the longest run of [a-zA-Z0-9] from place i on
RECURSIVE AlnumRun(_, _)
AlnumRun(url, i) ==
  IF i > Len(url) \/ url[i] \notin Alnum THEN <<>>
  ELSE <<url[i]>> \o AlnumRun(url, i + 1)

\* url.match(/literal([a-zA-Z0-9]+)/): group 1 of the leftmost match
match(url, literal) ==
  LET places == {i \in 1..Len(url) : MatchAt(url, literal, i)}
  IN IF places = {} THEN NoFileKey
     ELSE AlnumRun(url, SetMin(places) + Len(literal))

\* the first of three matches that is not null
FirstMatch(m1, m2, m3) ==
  IF m1 # NoFileKey THEN m1 ELSE IF m2 # NoFileKey THEN m2 ELSE m3

\* a variant of extractFileKey: the patterns tried in another order
extractFileKey_protoFirst(url) ==
  FirstMatch(match(url, PatternProto), match(url, PatternDesign),
             match(url, PatternFile))

\* extractFileKey: the first of the three patterns that matches
extractFileKey(url) ==
  FirstMatch(match(url, PatternFile), match(url, PatternDesign),
             match(url, PatternProto))

MsgNoToken == "No Figma token configured. Please set a token using setToken()"

MsgTimeout == "Request timeout"

MsgInvalidUrlFormat ==
  "Invalid Figma URL format. Please provide a valid Figma file or design URL."

\* the decrypted token, or the error thrown
GotToken(ok, value, error) == [ok |-> ok, value |-> value, error |-> error]

\* getToken: throws when config.token is undefined or ''
getToken(tok, keyFromEnv) ==
  IF tok = NoToken \/ tok = <<>>
  THEN GotToken(FALSE, NoToken, MsgNoToken)
  ELSE GotToken(TRUE, decrypt(tok, keyFromEnv, FALSE).value, Undefined)

\* what fetch and response.json() do, the environment's choice
Outcome(kind, body, status, statusText, message) ==
  [kind |-> kind, body |-> body, status |-> status,
   statusText |-> statusText, message |-> message]

\* what a request resolved to (ok, value) or was rejected with (error);
\* requested: fetch was called; sent: the X-Figma-Token header; handled:
\* the actions ErrorHandler.handle was called with
Answer(ok, value, error, requested, sent, handled) ==
  [ok |-> ok, value |-> value, error |-> error, requested |-> requested,
   sent |-> sent, handled |-> handled]

\* `Figma API error: ${status} ${statusText}. ${errorData.message || ''}`
ApiErrorMessage(outcome) ==
  "Figma API error: " \o outcome.status \o " " \o outcome.statusText
    \o ". " \o outcome.message

\* makeRequest, gotToken being what `this.getToken()` gives, which throws
\* before the try block.  A non-2xx response and a rejection of fetch pass
\* through ErrorHandler.handle; an abort becomes 'Request timeout' without
\* it; the promise of response.json() is returned without await, so its
\* rejection passes by the catch block
makeRequest(gotToken, outcome) ==
  IF ~gotToken.ok
  THEN Answer(FALSE, JsUndefined, gotToken.error, FALSE, NoToken, <<>>)
  ELSE CASE outcome.kind = "ok" ->
              Answer(TRUE, outcome.body, Undefined, TRUE, gotToken.value, <<>>)
         [] outcome.kind = "badjson" ->
              Answer(FALSE, JsUndefined, outcome.message, TRUE,
                     gotToken.value, <<>>)
         [] outcome.kind = "timeout" ->
              Answer(FALSE, JsUndefined, MsgTimeout, TRUE, gotToken.value,
                     <<>>)
         [] outcome.kind = "http" ->
              Answer(FALSE, JsUndefined, ApiErrorMessage(outcome), TRUE,
                     gotToken.value, <<"FigmaClient.makeRequest">>)
         [] OTHER ->
              Answer(FALSE, JsUndefined, outcome.message, TRUE,
                     gotToken.value, <<"FigmaClient.makeRequest">>)

\* the cache after a step of getUser / getFile, with what the step gave
Settled(c, h, m, answer) ==
  [cache |-> c, hits |-> h, misses |-> m, ok |-> answer.ok,
   value |-> answer.value, error |-> answer.error,
   requested |-> answer.requested, sent |-> answer.sent,
   handled |-> answer.handled]

\* the answer of a live cache entry
FromCache(value) == Answer(TRUE, value, Undefined, FALSE, NoToken, <<>>)

\* cache.get when caching is enabled
cachedValue(c, h, m, cacheKey, t) ==
  IF cacheEnabled THEN getResult(c, h, m, cacheKey, t)
  ELSE [cache |-> c, hits |-> h, misses |-> m, value |-> Miss]

\* the body of getUser / getFile after cache.get gave got: the cached
\* value when it is truthy, else the request, whose response is stored
\* when it did not throw
cachedOrRequested(got, response, cacheKey, ttl, t) ==
  IF cacheEnabled /\ IsTruthy(got.value)
  THEN Settled(got.cache, got.hits, got.misses, FromCache(got.value))
  ELSE IF ~response.ok
  THEN Settled(got.cache, got.hits, got.misses, response)
  ELSE Settled(IF cacheEnabled
               THEN cacheAfterSet(got.cache, cacheKey, response.value, ttl, t)
               ELSE got.cache,
               got.hits, got.misses, response)

\* a variant of getUser: the response stored for as long as a file
getUser_fileTTL(c, h, m, t, gotToken, outcome) ==
  cachedOrRequested(cachedValue(c, h, m, KeyFigmaUser, t),
                    makeRequest(gotToken, outcome), KeyFigmaUser, FILE_TTL, t)

\* getUser
getUser(c, h, m, t, gotToken, outcome) ==
  cachedOrRequested(cachedValue(c, h, m, KeyFigmaUser, t),
                    makeRequest(gotToken, outcome), KeyFigmaUser, USER_TTL, t)

\* `figma-file-${fileKey}`
FileCacheKey(fileKey) == <<"f", "i", "g", "m", "a", "-", "f", "i", "l", "e", "-">> \o fileKey

\* a variant of getFile: the cache not consulted
getFile_uncached(fileKey, c, h, m, t, gotToken, outcome) ==
  cachedOrRequested([cache |-> c, hits |-> h, misses |-> m, value |-> Miss],
                    makeRequest(gotToken, outcome), FileCacheKey(fileKey),
                    FILE_TTL, t)

\* a variant of getFile: what a failed request gave stored as well
getFile_storesFailure(fileKey, c, h, m, t, gotToken, outcome) ==
  cachedOrRequested(cachedValue(c, h, m, FileCacheKey(fileKey), t),
                    [makeRequest(gotToken, outcome) EXCEPT !.ok = TRUE],
                    FileCacheKey(fileKey), FILE_TTL, t)

\* getFile
getFile(fileKey, c, h, m, t, gotToken, outcome) ==
  cachedOrRequested(cachedValue(c, h, m, FileCacheKey(fileKey), t),
                    makeRequest(gotToken, outcome), FileCacheKey(fileKey),
                    FILE_TTL, t)

\* { success: true, user } / { success: false, error: errorMessage }
ConnectionResult(success, user, error) ==
  [success |-> success, user |-> user, error |-> error]

\* the try and the catch block of testConnection, user being what getUser
\* settled with; what getUser throws is an Error, so errorMessage is its
\* message
connectionOf(user) ==
  [user EXCEPT !.handled = IF user.ok THEN @
                           ELSE @ \o <<"FigmaClient.testConnection">>] @@
  [result |-> IF user.ok THEN ConnectionResult(TRUE, user.value, Undefined)
              ELSE ConnectionResult(FALSE, JsUndefined, user.error)]

\* a variant of testConnection: the failure reported with the fixed text
testConnection_fixedMessage(c, h, m, t, gotToken, outcome) ==
  [connectionOf(getUser(c, h, m, t, gotToken, outcome)) EXCEPT
     !.result = IF @.success THEN @
                ELSE ConnectionResult(FALSE, JsUndefined,
                                      "Connection test failed")]

\* testConnection
testConnection(c, h, m, t, gotToken, outcome) ==
  connectionOf(getUser(c, h, m, t, gotToken, outcome))

\* { valid, fileKey?, error? }
UrlResult(valid, fileKey, error) ==
  [valid |-> valid, fileKey |-> fileKey, error |-> error]

\* the rest of validateUrl once getFile(fileKey) settled with file
validationOf(fileKey, file) ==
  file @@
  [result |-> IF file.ok THEN UrlResult(TRUE, fileKey, Undefined)
              ELSE UrlResult(FALSE, NoFileKey, file.error)]

\* validateUrl when extractFileKey gave null: neither cache nor network
invalidFormat(c, h, m) ==
  Settled(c, h, m, Answer(FALSE, JsUndefined, MsgInvalidUrlFormat, FALSE,
                          NoToken, <<>>)) @@
  [result |-> UrlResult(FALSE, NoFileKey, MsgInvalidUrlFormat)]

\* a variant of validateUrl: valid as soon as a file key is found
validateUrl_keyOnly(url, c, h, m, t, gotToken, outcome) ==
  IF extractFileKey(url) = NoFileKey THEN invalidFormat(c, h, m)
  ELSE [validationOf(extractFileKey(url),
                     getFile(extractFileKey(url), c, h, m, t, gotToken,
                             outcome))
          EXCEPT !.result = UrlResult(TRUE, extractFileKey(url), Undefined)]

\* validateUrl
validateUrl(url, c, h, m, t, gotToken, outcome) ==
  IF extractFileKey(url) = NoFileKey THEN invalidFormat(c, h, m)
  ELSE validationOf(extractFileKey(url),
                    getFile(extractFileKey(url), c, h, m, t, gotToken,
                            outcome))

(***************************************************************************)
(* The operations of the client as steps.                                  *)
(***************************************************************************)
\* the number of cache reads the client makes at most
MaxFetches == 3

\* the last instant the client is observed at
MaxClientClock == 3900000

\* the instants the client is observed at: the clock stands on and passes
\* the expiry of a user entry and of a file entry stored at 0
ClientInstants ==
  {USER_TTL * 1000, 2 * USER_TTL * 1000, FILE_TTL * 1000,
   (FILE_TTL + USER_TTL) * 1000}

\* the keys the capacity sweep of cache.set removes
sweptBySet(c, key, data, ttl, t) ==
  LET inserted == MapSet(c, newEntry(key, data, ttl, t))
  IN capacityKeys(MapDeleteAll(inserted, expiredKeys(inserted, t)))

\* the cache and its histories after a step of the client that read
\* cacheKey and, when the network answered, stored the answer
CacheStep(r, cacheKey, ttl) ==
  /\ cache' = r.cache
  /\ hits' = r.hits
  /\ misses' = r.misses
  /\ getCalls' = IF ~cacheEnabled THEN getCalls
                 ELSE IF Live(cacheKey) THEN [getCalls EXCEPT !.live = @ + 1]
                 ELSE [getCalls EXCEPT !.dead = @ + 1]
  /\ evicted' = IF cacheEnabled /\ r.requested /\ r.ok
                THEN sweptBySet(MapDeleteAll(cache, expiredKeys(cache, now)
                                               \cap {cacheKey}),
                                cacheKey, r.value, ttl, now)
                ELSE {}
  /\ fetched' = IF cacheEnabled /\ r.requested /\ r.ok
                THEN {e \in fetched : e.key # cacheKey} \cup
                       {[key |-> cacheKey, at |-> now, value |-> r.value]}
                ELSE fetched

\* what the operation op settled with, as history
Report(op, r, fileKey, url, outcome) ==
  [NoOp EXCEPT !.op = op, !.ok = r.ok, !.value = r.value, !.error = r.error,
               !.requested = r.requested, !.sent = r.sent,
               !.handled = r.handled, !.fileKey = fileKey, !.url = url,
               !.outcome = IF r.requested THEN outcome ELSE @]

\* what the caller of testConnection sees: the ConnectionResult
connectionSeen(r) ==
  [r EXCEPT !.ok = r.result.success, !.value = r.result.user,
            !.error = r.result.error]

\* what the caller of validateUrl sees: valid, fileKey and error
validationSeen(r) ==
  [r EXCEPT !.ok = r.result.valid, !.value = JsUndefined,
            !.error = r.result.error]

\* a step of the client that settled with r, of which the caller sees seen
ClientStep(op, r, seen, cacheKey, ttl, fileKey, url, outcome) ==
  /\ CacheStep(r, cacheKey, ttl)
  /\ last' = Report(op, seen, fileKey, url, outcome)
  /\ UNCHANGED <<now, cipherVars, appVars, configToken, storage, hook, effect>>

\* figmaClient.setToken(tok); randomBytes gives iv
SetToken(tok, iv) ==
  /\ configToken' = encrypt(tok, env, iv, FALSE).value
  /\ last' = [NoOp EXCEPT !.op = "setToken", !.ok = TRUE]
  /\ UNCHANGED <<cacheVars, cipherVars, appVars, storage, hook, effect, fetched>>

\* figmaClient.getUser()
GetUser(outcome) ==
  /\ hits + misses < MaxFetches
  /\ ClientStep("getUser",
                getUser(cache, hits, misses, now, getToken(configToken, env),
                        outcome),
                getUser(cache, hits, misses, now, getToken(configToken, env),
                        outcome),
                KeyFigmaUser, USER_TTL, NoFileKey, <<>>, outcome)

\* figmaClient.testConnection()
TestConnection(outcome) ==
  /\ hits + misses < MaxFetches
  /\ ClientStep("testConnection",
                testConnection(cache, hits, misses, now,
                               getToken(configToken, env), outcome),
                connectionSeen(testConnection(cache, hits, misses, now,
                                              getToken(configToken, env),
                                              outcome)),
                KeyFigmaUser, USER_TTL, NoFileKey, <<>>, outcome)

\* figmaClient.getFile(fileKey)
GetFile(fileKey, outcome) ==
  /\ hits + misses < MaxFetches
  /\ ClientStep("getFile",
                getFile(fileKey, cache, hits, misses, now,
                        getToken(configToken, env), outcome),
                getFile(fileKey, cache, hits, misses, now,
                        getToken(configToken, env), outcome),
                FileCacheKey(fileKey), FILE_TTL, fileKey, <<>>, outcome)

\* a step of validateUrl that settled with r
ValidateStep(url, r, outcome) ==
  IF extractFileKey(url) = NoFileKey
  THEN /\ last' = Report("validateUrl", validationSeen(r), r.result.fileKey,
                        url, outcome)
       /\ UNCHANGED <<cacheVars, cipherVars, appVars, configToken, storage, hook,
                      effect, fetched>>
  ELSE ClientStep("validateUrl", r, validationSeen(r),
                  FileCacheKey(extractFileKey(url)),
                  FILE_TTL, r.result.fileKey, url, outcome)

\* figmaClient.validateUrl(url)
ValidateUrl(url, outcome) ==
  /\ hits + misses < MaxFetches
  /\ ValidateStep(url, validateUrl(url, cache, hits, misses, now,
                                   getToken(configToken, env), outcome),
                  outcome)

\* figmaClient.clearFileCache(fileKey)
ClearFileCache(fileKey) ==
  /\ cache' = MapDelete(cache, FileCacheKey(fileKey))
  /\ evicted' = {}
  /\ fetched' = {e \in fetched : e.key # FileCacheKey(fileKey)}
  /\ last' = [NoOp EXCEPT !.op = "clearFileCache", !.ok = TRUE]
  /\ UNCHANGED <<hits, misses, now, getCalls, cipherVars, appVars, configToken,
                 storage, hook, effect>>

\* figmaClient.clearAllCache()
ClearAllCache ==
  /\ cache' = cacheAfterClear(cache, PrefixFigma)
  /\ evicted' = {}
  /\ fetched' = {e \in fetched : ~startsWith(e.key, PrefixFigma)}
  /\ last' = [NoOp EXCEPT !.op = "clearAllCache", !.ok = TRUE]
  /\ UNCHANGED <<hits, misses, now, getCalls, cipherVars, appVars, configToken,
                 storage, hook, effect>>

\* time passes between two operations of the client
ClientTick(t) ==
  /\ t > now
  /\ t <= MaxClientClock
  /\ now' = t
  /\ UNCHANGED <<cache, hits, misses, getCalls, evicted, notCache>>

(***************************************************************************)
(* The client on its own: inputs and specification.                        *)
(***************************************************************************)
UserAlice == JsObject(<<"{", "a", "}">>)

UserBob == JsObject(<<"{", "b", "}">>)

FileV1 == JsObject(<<"{", "1", "}">>)

FileV2 == JsObject(<<"{", "2", "}">>)

Ok(body) == Outcome("ok", body, "200", "OK", "")

Http401 == Outcome("http", JsUndefined, "401", "Unauthorized", "Invalid token")

Http404 == Outcome("http", JsUndefined, "404", "Not Found", "File not found")

NetworkError == Outcome("network", JsUndefined, "", "", "Network error")

Timeout == Outcome("timeout", JsUndefined, "", "", "The operation was aborted")

BadJson ==
  Outcome("badjson", JsUndefined, "200", "OK", "Unexpected end of JSON input")

UserOutcomes ==
  {Ok(UserAlice), Ok(UserBob), Http401, NetworkError, Timeout, BadJson}

FileOutcomes == {Ok(FileV1), Ok(FileV2), Http404, NetworkError, Timeout}

\* the file key 'A', so that `figma-file-A` is KeyFigmaFile
FileKeyA == <<"A">>

\* 'figma.com/file/A/x', 'figma.com/design/A', 'x.com', 'figma.com/file/',
\* and a URL that two patterns match at different places
UrlFile == <<"f", "i", "g", "m", "a", ".", "c", "o", "m", "/", "f", "i", "l", "e", "/", "A", "/", "x">>

UrlDesign ==
  <<"f", "i", "g", "m", "a", ".", "c", "o", "m", "/", "d", "e", "s", "i", "g", "n", "/", "A">>

UrlOther == <<"x", ".", "c", "o", "m">>

UrlNoKey == <<"f", "i", "g", "m", "a", ".", "c", "o", "m", "/", "f", "i", "l", "e", "/">>

UrlTwice ==
  <<"f", "i", "g", "m", "a", ".", "c", "o", "m", "/", "p", "r", "o", "t", "o", "/", "B", "?", "f", "i", "g", "m", "a", ".", "c", "o", "m", "/", "f", "i", "l", "e", "/", "A">>

InputUrls == {UrlFile, UrlDesign, UrlOther, UrlNoKey, UrlTwice}

\* one value of randomBytes(12)
ClientIV == [i \in 1..IV_LENGTH |-> 16 * i]

NextClient ==
  \/ SetToken(TokenFigd, ClientIV)
  \/ \E o \in UserOutcomes : GetUser(o)
  \/ \E o \in UserOutcomes : TestConnection(o)
  \/ \E o \in FileOutcomes : GetFile(FileKeyA, o)
  \/ \E u \in InputUrls, o \in FileOutcomes : ValidateUrl(u, o)
  \/ ClearFileCache(FileKeyA)
  \/ ClearAllCache
  \/ \E t \in ClientInstants : ClientTick(t)

SpecClient == Init /\ [][NextClient]_vars

\* the client over a cache that other users of the CacheManager singleton
\* have filled to its capacity
NextClientFull ==
  \/ SetToken(TokenFigd, ClientIV)
  \/ \E o \in {Ok(UserAlice), Http401} : GetUser(o)
  \/ \E o \in {Ok(FileV1), Http404} : GetFile(FileKeyA, o)
  \/ ClearAllCache
  \/ \E t \in ClientInstants : ClientTick(t)

SpecClientFull == InitFull /\ [][NextClientFull]_vars

(***************************************************************************)
(* useFigma: the hook's state, its operations and its effect.  An          *)
(* operation is one step, from the call to the settlement of its promise.  *)
(* effect is "unmounted" before the first render, "pending" when React has *)
(* an effect run outstanding (after the mount, and after a render in which *)
(* state.isConnected changed: connect has the stable toast as its only     *)
(* dependency), and "idle" otherwise.  React runs a pending effect before  *)
(* it handles the next event, so the operations wait for "idle".           *)
(***************************************************************************)
\* `result.error || null`
orNull(error) == IF error = Undefined \/ error = "" THEN Null ELSE error

\* setState(prev => ({ ...prev, isLoading: true, error: null }))
loadingState(prev) == [prev EXCEPT !.isLoading = TRUE, !.error = Null]

\* the state after connect, testConnection having resolved with result
connectState(prev, result) ==
  [loadingState(prev) EXCEPT !.isConnected = result.success,
                             !.connectionResult = result,
                             !.isLoading = FALSE,
                             !.error = orNull(result.error)]

\* a variant of connectStorage: the token stored whatever the result
connectStorage_always(store, tok, result) == tok

\* localStorage 'figma-token' after connect(tok)
connectStorage(store, tok, result) ==
  IF result.success THEN tok ELSE store

\* the title of the toast connect shows
connectToast(result) ==
  IF result.success THEN "Connected to Figma" ELSE "Connection Failed"

\* the state after the hook's testConnection
testConnectionState(prev, result) ==
  [prev EXCEPT !.isConnected = result.success, !.connectionResult = result,
               !.isLoading = FALSE, !.error = orNull(result.error)]

\* a variant of disconnectState: the file kept
disconnectState_keepsFile(prev) ==
  [initialState EXCEPT !.fileData = prev.fileData]

\* setState(initialState)
disconnectState(prev) == initialState

\* getFile was not called: extractFileKey gave null
invalidUrl(c, h, m) ==
  Settled(c, h, m, Answer(FALSE, JsUndefined, "Invalid Figma URL", FALSE,
                          NoToken, <<>>))

\* a variant of loadFileState: the file dropped when loading fails
loadFileState_dropsFile(prev, file) ==
  IF file.ok
  THEN [loadingState(prev) EXCEPT !.fileData = file.value,
                                  !.isLoading = FALSE]
  ELSE [loadingState(prev) EXCEPT !.fileData = JsNull, !.isLoading = FALSE,
                                  !.error = file.error]

\* the state after loadFile, file being what getFile settled with or the
\* 'Invalid Figma URL' error
loadFileState(prev, file) ==
  IF file.ok
  THEN [loadingState(prev) EXCEPT !.fileData = file.value,
                                  !.isLoading = FALSE]
  ELSE [loadingState(prev) EXCEPT !.isLoading = FALSE,
                                  !.error = file.error]

\* the title of the toast loadFile shows
loadFileToast(file) == IF file.ok THEN "File Loaded" ELSE "Load Error"

\* a variant of effectAfter: the effect run again after every render
effectAfter_everyRender(prev, next) == "pending"

\* the dependencies of the effect: [connect, state.isConnected]
effectAfter(prev, next) ==
  IF prev.isConnected # next.isConnected THEN "pending" ELSE "idle"

\* `storedToken && !state.isConnected`
shouldConnect(storedToken, state) ==
  storedToken # NoItem /\ storedToken # <<>> /\ ~state.isConnected

\* the first render: useState(initialState)
Mount ==
  /\ effect = "unmounted"
  /\ hits + misses < MaxFetches
  /\ hook' = initialState
  /\ effect' = "pending"
  /\ last' = [NoOp EXCEPT !.op = "mount"]
  /\ UNCHANGED <<cacheVars, cipherVars, appVars, configToken, storage, fetched>>

\* the component is unmounted: its state is gone, the client and
\* localStorage stay
Unmount ==
  /\ effect = "idle"
  /\ hook' = initialState
  /\ effect' = "unmounted"
  /\ last' = [NoOp EXCEPT !.op = "unmount"]
  /\ UNCHANGED <<cacheVars, cipherVars, appVars, configToken, storage, fetched>>

\* connect(tok) once setToken left tokenSet in the client and
\* testConnection settled with r
ConnectStep(tok, tokenSet, r, outcome, auto) ==
  /\ configToken' = tokenSet
  /\ CacheStep(r, KeyFigmaUser, USER_TTL)
  /\ hook' = connectState(hook, r.result)
  /\ storage' = connectStorage(storage, tok, r.result)
  /\ effect' = effectAfter(hook, connectState(hook, r.result))
  /\ last' = [Report("connect", connectionSeen(r), NoFileKey, <<>>, outcome)
                EXCEPT !.toast = connectToast(r.result), !.auto = auto,
                       !.returned = r.result.success, !.token = tok,
                       !.wasConnected = hook.isConnected]
  /\ disconnected' = FALSE
  /\ UNCHANGED <<now, cipherVars, restVars, inFlight>>

\* connect(tok); randomBytes gives iv
connect(tok, iv, outcome, auto) ==
  \E tokenSet \in {encrypt(tok, env, iv, FALSE).value} :
    \E r \in {testConnection(cache, hits, misses, now,
                             getToken(tokenSet, env), outcome)} :
      ConnectStep(tok, tokenSet, r, outcome, auto)

\* the user connects
Connect(tok, iv, outcome) ==
  /\ effect = "idle"
  /\ hits + misses < MaxFetches
  /\ connect(tok, iv, outcome, FALSE)

\* the effect runs: localStorage.getItem, then connect(storedToken)
AutoConnect(iv, outcome) ==
  /\ effect = "pending"
  /\ IF shouldConnect(storage, hook)
     THEN connect(storage, iv, outcome, TRUE)
     ELSE /\ effect' = "idle"
          /\ last' = [NoOp EXCEPT !.op = "effect",
                                  !.wasConnected = hook.isConnected]
          /\ UNCHANGED <<cacheVars, cipherVars, appVars, configToken, storage, hook,
                         fetched>>

\* disconnect()
Disconnect ==
  /\ effect = "idle"
  /\ hook' = disconnectState(hook)
  /\ storage' = NoItem
  /\ effect' = effectAfter(hook, disconnectState(hook))
  /\ last' = [NoOp EXCEPT !.op = "disconnect", !.ok = TRUE,
                          !.toast = "Disconnected",
                          !.wasConnected = hook.isConnected]
  /\ disconnected' = TRUE
  /\ UNCHANGED <<cacheVars, cipherVars, restVars, inFlight, configToken,
                 fetched>>

\* loadFile(url) once extractFileKey gave fileKey and getFile settled with
\* r, or was not called
LoadFileStep(url, fileKey, r, outcome) ==
  /\ IF fileKey = NoFileKey
     THEN UNCHANGED <<cache, hits, misses, getCalls, evicted, fetched>>
     ELSE CacheStep(r, FileCacheKey(fileKey), FILE_TTL)
  /\ hook' = loadFileState(hook, r)
  /\ effect' = effectAfter(hook, loadFileState(hook, r))
  /\ last' = [Report("loadFile", r, fileKey, url, outcome)
                EXCEPT !.toast = loadFileToast(r),
                       !.wasConnected = hook.isConnected]
  /\ UNCHANGED <<now, cipherVars, appVars, configToken, storage>>

\* loadFile(url)
LoadFile(url, outcome) ==
  /\ effect = "idle"
  /\ hits + misses < MaxFetches
  /\ LoadFileStep(url, extractFileKey(url),
                  IF extractFileKey(url) = NoFileKey
                  THEN invalidUrl(cache, hits, misses)
                  ELSE getFile(extractFileKey(url), cache, hits, misses, now,
                               getToken(configToken, env), outcome),
                  outcome)

\* the hook's testConnection once the client's settled with r
HookTestStep(r, outcome) ==
  /\ CacheStep(r, KeyFigmaUser, USER_TTL)
  /\ hook' = testConnectionState(hook, r.result)
  /\ effect' = effectAfter(hook, testConnectionState(hook, r.result))
  /\ last' = [Report("hookTestConnection", connectionSeen(r), NoFileKey,
                     <<>>, outcome)
                EXCEPT !.returned = r.result.success,
                       !.wasConnected = hook.isConnected]
  /\ disconnected' = FALSE
  /\ UNCHANGED <<now, cipherVars, restVars, inFlight, configToken, storage>>

\* the hook's testConnection()
HookTestConnection(outcome) ==
  /\ effect = "idle"
  /\ hits + misses < MaxFetches
  /\ HookTestStep(testConnection(cache, hits, misses, now,
                                 getToken(configToken, env), outcome),
                  outcome)

\* clearCache(): figmaClient.clearAllCache() and the toast
ClearCache ==
  /\ effect = "idle"
  /\ cache' = cacheAfterClear(cache, PrefixFigma)
  /\ evicted' = {}
  /\ fetched' = {e \in fetched : ~startsWith(e.key, PrefixFigma)}
  /\ last' = [NoOp EXCEPT !.op = "clearCache", !.ok = TRUE,
                          !.toast = "Cache Cleared",
                          !.wasConnected = hook.isConnected]
  /\ UNCHANGED <<hits, misses, now, getCalls, cipherVars, appVars, configToken,
                 storage, hook, effect>>

\* the tokens the user connects with, the answers to the user request and
\* to the file request, and the URLs
HookTokens == {TokenFigd, <<97>>}

HookUserOutcomes == {Ok(UserAlice), Http401, Timeout}

HookFileOutcomes == {Ok(FileV1), Http404}

HookUrls == {UrlFile, UrlOther}

NextHook ==
  \/ Mount
  \/ Unmount
  \/ \E o \in HookUserOutcomes : AutoConnect(ClientIV, o)
  \/ \E tok \in HookTokens, o \in HookUserOutcomes : Connect(tok, ClientIV, o)
  \/ Disconnect
  \/ \E u \in HookUrls, o \in HookFileOutcomes : LoadFile(u, o)
  \/ \E o \in HookUserOutcomes : HookTestConnection(o)
  \/ ClearCache
  \/ \E t \in ClientInstants : ClientTick(t)

SpecHook == Init /\ [][NextHook]_vars

\* the answers to the user request while the effect is observed
EffectOutcomes == {Ok(UserAlice), Http401}

\* the effect runs
EffectRuns == \E o \in EffectOutcomes : AutoConnect(ClientIV, o)

\* the hook mounted, connected, disconnected and unmounted
NextEffect ==
  \/ Mount
  \/ Unmount
  \/ EffectRuns
  \/ \E o \in EffectOutcomes : Connect(TokenFigd, ClientIV, o)
  \/ Disconnect
  \/ \E o \in EffectOutcomes : HookTestConnection(o)
  \/ ClearCache

\* no effect stays outstanding: React runs an effect after the render that
\* scheduled it.  While effect is "pending" the only steps are runs of the
\* effect, and a run that leaves it "pending" (isConnected became true) is
\* followed by one that finds the hook connected and leaves it "idle"
EffectFlushed == effect = "pending" /\ effect' = "idle"

SpecHookFair == Init /\ [][NextEffect]_vars /\ WF_effect(EffectFlushed)

(***************************************************************************)
(* useFigma with a call in flight.  A call of connect or testConnection    *)
(* that finds no cached user runs up to fetch in one step (the state       *)
(* update, setToken, cache.get and getToken precede the first wait for the *)
(* network) and settles in a later step, when the response has arrived;    *)
(* other handlers of the hook run in between.                              *)
(***************************************************************************)
\* getUser goes to the network: cache.get gives nothing and a token is set
goesToNetwork(tokenSet) ==
  /\ ~IsTruthy(cachedValue(cache, hits, misses, KeyFigmaUser, now).value)
  /\ getToken(tokenSet, env).ok

\* cache.get(cacheKey) of the call that begins
BeginStep(got) ==
  /\ cache' = got.cache
  /\ hits' = got.hits
  /\ misses' = got.misses
  /\ getCalls' = IF ~cacheEnabled THEN getCalls
                 ELSE IF Live(KeyFigmaUser)
                 THEN [getCalls EXCEPT !.live = @ + 1]
                 ELSE [getCalls EXCEPT !.dead = @ + 1]
  /\ evicted' = {}
  /\ UNCHANGED <<now, fetched>>

\* the rest of testConnection once the request of the call in flight is
\* answered: getUser stores the response, testConnection wraps it
settlement(flight, outcome) ==
  connectionOf(
    cachedOrRequested([cache |-> cache, hits |-> hits, misses |-> misses,
                       value |-> Miss],
                      makeRequest(GotToken(TRUE, flight.sent, Undefined),
                                  outcome),
                      KeyFigmaUser, USER_TTL, now))

\* cache.set(cacheKey, response, 300) of the call that settles with r
SettleStep(r) ==
  /\ cache' = r.cache
  /\ evicted' = IF cacheEnabled /\ r.ok
                THEN sweptBySet(cache, KeyFigmaUser, r.value, USER_TTL, now)
                ELSE {}
  /\ fetched' = IF cacheEnabled /\ r.ok
                THEN {e \in fetched : e.key # KeyFigmaUser} \cup
                       {[key |-> KeyFigmaUser, at |-> now, value |-> r.value]}
                ELSE fetched
  /\ UNCHANGED <<hits, misses, now, getCalls>>

\* connect(tok) up to the request; randomBytes gives iv
ConnectBegins(tok, iv) ==
  /\ effect = "idle"
  /\ inFlight.op = "none"
  /\ hits + misses < MaxFetches
  /\ \E tokenSet \in {encrypt(tok, env, iv, FALSE).value} :
       /\ goesToNetwork(tokenSet)
       /\ configToken' = tokenSet
       /\ inFlight' = [op |-> "connect", token |-> tok,
                       sent |-> getToken(tokenSet, env).value]
  /\ BeginStep(cachedValue(cache, hits, misses, KeyFigmaUser, now))
  /\ hook' = loadingState(hook)
  /\ last' = [NoOp EXCEPT !.op = "connectBegins", !.token = tok,
                          !.wasConnected = hook.isConnected]
  /\ disconnected' = FALSE
  /\ UNCHANGED <<cipherVars, restVars, storage, effect>>

\* the request of connect is answered: the rest of connect
ConnectSettles(outcome) ==
  /\ effect = "idle"
  /\ inFlight.op = "connect"
  /\ \E r \in {settlement(inFlight, outcome)} :
       /\ SettleStep(r)
       /\ hook' = connectState(hook, r.result)
       /\ storage' = connectStorage(storage, inFlight.token, r.result)
       /\ effect' = effectAfter(hook, connectState(hook, r.result))
       /\ last' = [Report("connect", connectionSeen(r), NoFileKey, <<>>,
                          outcome)
                     EXCEPT !.toast = connectToast(r.result),
                            !.returned = r.result.success,
                            !.token = inFlight.token,
                            !.wasConnected = hook.isConnected]
  /\ inFlight' = NoFlight
  /\ UNCHANGED <<cipherVars, restVars, configToken, disconnected>>

\* the hook's testConnection() up to the request
TestBegins ==
  /\ effect = "idle"
  /\ inFlight.op = "none"
  /\ hits + misses < MaxFetches
  /\ goesToNetwork(configToken)
  /\ inFlight' = [op |-> "testConnection", token |-> NoToken,
                  sent |-> getToken(configToken, env).value]
  /\ BeginStep(cachedValue(cache, hits, misses, KeyFigmaUser, now))
  /\ hook' = [hook EXCEPT !.isLoading = TRUE]
  /\ last' = [NoOp EXCEPT !.op = "testConnectionBegins",
                          !.wasConnected = hook.isConnected]
  /\ disconnected' = FALSE
  /\ UNCHANGED <<cipherVars, restVars, configToken, storage, effect>>

\* the request of testConnection is answered: the rest of testConnection
TestSettles(outcome) ==
  /\ effect = "idle"
  /\ inFlight.op = "testConnection"
  /\ \E r \in {settlement(inFlight, outcome)} :
       /\ SettleStep(r)
       /\ hook' = testConnectionState(hook, r.result)
       /\ effect' = effectAfter(hook, testConnectionState(hook, r.result))
       /\ last' = [Report("hookTestConnection", connectionSeen(r), NoFileKey,
                          <<>>, outcome)
                     EXCEPT !.returned = r.result.success,
                            !.wasConnected = hook.isConnected]
  /\ inFlight' = NoFlight
  /\ UNCHANGED <<cipherVars, restVars, configToken, storage, disconnected>>

NextFlight ==
  \/ Mount
  \/ \E o \in HookUserOutcomes : AutoConnect(ClientIV, o)
  \/ \E tok \in HookTokens : ConnectBegins(tok, ClientIV)
  \/ \E o \in HookUserOutcomes : ConnectSettles(o)
  \/ TestBegins
  \/ \E o \in HookUserOutcomes : TestSettles(o)
  \/ Disconnect
  \/ ClearCache
  \/ \E t \in ClientInstants : ClientTick(t)

SpecFlight == Init /\ [][NextFlight]_vars

(***************************************************************************)
(* ErrorHandler (src/lib/errors/error-handler.ts).  A report carries, next *)
(* to its error, action and timestamp, the number of the handle call that  *)
(* made it (seq), which the code does not keep.                            *)
(***************************************************************************)
\* private static maxReports = 100
MAX_REPORTS == 100

\* the number of reports stored when the handler is first observed
MaxStored == 98

\* the number of reports made at most
MaxHandled == 102

\* the last millisecond reports are made at
MaxErrorClock == 2

\* the number of handleAsync calls at most
MaxCalls == 1

\* const { maxRetries = 3, retryDelay = 1000, fallback } = options
DEFAULT_MAX_RETRIES == 3

DEFAULT_RETRY_DELAY == 1000

\* an option that was not given is <<>>, one that was given is <<value>>
orDefault(option, default) == IF option = <<>> THEN default ELSE option[1]

ErrorReport(error, action, timestamp, seq) ==
  [error |-> error, action |-> action, timestamp |-> timestamp, seq |-> seq]

\* a variant of storeError: the reports past the limit are dropped from the
\* end of the array
storeError_keepsFirst(reports, report) ==
  IF Len(reports) + 1 > MAX_REPORTS
  THEN SubSeq(Append(reports, report), 1, MAX_REPORTS)
  ELSE Append(reports, report)

\* storeError: push, then slice(-maxReports) past the limit
storeError(reports, report) ==
  IF Len(reports) + 1 > MAX_REPORTS
  THEN SubSeq(Append(reports, report), Len(reports) + 2 - MAX_REPORTS,
              Len(reports) + 1)
  ELSE Append(reports, report)

\* handle: the report of error, made at t by the seq-th call, stored
handle(reports, error, action, t, seq) ==
  storeError(reports, ErrorReport(error, action, t, seq))

\* the place the i-th report is sorted to: behind the newer reports and
\* behind the reports as new that stood before it (the sort is stable)
placeOf(reports, i) ==
  Cardinality({j \in 1..Len(reports) :
                 \/ reports[j].timestamp > reports[i].timestamp
                 \/ (reports[j].timestamp = reports[i].timestamp /\ j < i)})
    + 1

\* sort((a, b) => b.context.timestamp - a.context.timestamp): newest first
sortNewestFirst(reports) ==
  CHOOSE sorted \in
    {[k \in 1..Len(reports) |->
        reports[CHOOSE i \in 1..Len(reports) : places[i] = k]] :
       places \in {[i \in 1..Len(reports) |-> placeOf(reports, i)]}} : TRUE

\* getRecentErrors: Array.prototype.sort sorts this.errorReports itself
getRecentErrors(reports, limit) ==
  [errorReports |-> sortNewestFirst(reports),
   value |-> SubSeq(sortNewestFirst(reports), 1, Min2(limit, Len(reports)))]

\* lastError = error instanceof Error ? error : new Error('Unknown error')
asError(thrown) == IF thrown.isError THEN thrown.error ELSE "Unknown error"

\* fallbackError instanceof Error ? fallbackError : new Error('Fallback failed')
asFallbackError(thrown) ==
  IF thrown.isError THEN thrown.error ELSE "Fallback failed"

\* the loop test `attempt <= maxRetries` with its exit to the final throw:
\* throw lastError || new Error('Operation failed after all retries')
loopOrThrow(r) ==
  IF r.attempt <= r.maxRetries THEN [r EXCEPT !.pc = "attempt"]
  ELSE [r EXCEPT !.pc = "rejected",
                 !.result = IF r.lastError = Null
                            THEN "Operation failed after all retries"
                            ELSE r.lastError]

\* 2^n
RECURSIVE pow2(_)
pow2(n) == IF n = 0 THEN 1 ELSE 2 * pow2(n - 1)

\* a variant of backoff: the delay grows by retryDelay with each attempt
backoff_linear(retryDelay, attempt) == retryDelay * attempt

\* retryDelay * Math.pow(2, attempt - 1)
backoff(retryDelay, attempt) == retryDelay * pow2(attempt - 1)

\* the catch block of the loop after this.handle(...)
afterFailure(r, error) ==
  LET failed == [r EXCEPT !.lastError = error]
  IN  IF r.attempt = r.maxRetries
      THEN IF r.fallback THEN [failed EXCEPT !.pc = "fallback"]
           ELSE [failed EXCEPT !.pc = "rejected", !.result = error]
      ELSE [failed EXCEPT !.pc = "waiting",
                          !.waits = Append(@, backoff(r.retryDelay, r.attempt))]

\* what an operation or a fallback throws, an Error or something else, and
\* an operation that resolved
Thrown(isError, error) == [ok |-> FALSE, isError |-> isError, error |-> error]

Resolved == [ok |-> TRUE, isError |-> FALSE, error |-> Null]

\* a variant of fallbackRejection: handleAsync rejects with what the fallback
\* threw
fallbackRejection_ownError(r, thrown) ==
  [r EXCEPT !.pc = "rejected", !.result = asFallbackError(thrown),
            !.fallbackCalls = @ + 1]

\* the fallback threw: break, and `throw lastError`
fallbackRejection(r, thrown) ==
  [r EXCEPT !.pc = "rejected", !.result = r.lastError,
            !.fallbackCalls = @ + 1]

\* ErrorHandler.handle(error, action)
Handle(error, action) ==
  /\ reported < MaxHandled
  /\ errorReports' = handle(errorReports, error, action, now, reported + 1)
  /\ reported' = reported + 1
  /\ UNCHANGED <<cacheVars, cipherVars, figmaVars, aiVars, wizVars, flightVars, retry>>

\* ErrorHandler.getRecentErrors(limit)
GetRecentErrors(limit) ==
  /\ errorReports' = getRecentErrors(errorReports, limit).errorReports
  /\ UNCHANGED <<cacheVars, cipherVars, figmaVars, aiVars, wizVars, flightVars, reported, retry>>

\* a millisecond passes
ErrorTick ==
  /\ now < MaxErrorClock
  /\ now' = now + 1
  /\ UNCHANGED <<cache, hits, misses, getCalls, evicted, notCache>>

\* ErrorHandler.handleAsync(operation, action, options) up to its loop
HandleAsync(maxRetries, retryDelay, fallback) ==
  /\ retry.pc \in {"idle", "resolved", "rejected"}
  /\ retry.calls < MaxCalls
  /\ retry' = loopOrThrow([NoRetry EXCEPT
                             !.attempt = 1,
                             !.maxRetries = orDefault(maxRetries,
                                                      DEFAULT_MAX_RETRIES),
                             !.retryDelay = orDefault(retryDelay,
                                                      DEFAULT_RETRY_DELAY),
                             !.fallback = fallback,
                             !.options = <<maxRetries, retryDelay>>,
                             !.calls = retry.calls + 1])
  /\ UNCHANGED <<cacheVars, cipherVars, figmaVars, aiVars, wizVars, flightVars, errorReports,
                 reported>>

\* `return await operation()`: the operation resolves
AttemptResolves(value) ==
  /\ retry.pc = "attempt"
  /\ retry' = [retry EXCEPT !.pc = "resolved", !.result = value,
                            !.invocations = Append(@, Resolved)]
  /\ UNCHANGED <<cacheVars, cipherVars, figmaVars, aiVars, wizVars, flightVars, errorReports,
                 reported>>

\* `await operation()` rejects with thrown: the catch block up to the wait
AttemptRejects(thrown) ==
  /\ retry.pc = "attempt"
  /\ retry' = afterFailure([retry EXCEPT
                              !.invocations = Append(@, thrown)],
                           asError(thrown))
  /\ errorReports' = handle(errorReports, asError(thrown), "attempt", now,
                            reported + 1)
  /\ reported' = reported + 1
  /\ UNCHANGED <<cacheVars, cipherVars, figmaVars, aiVars, wizVars, flightVars>>

\* the timer of the wait fires: attempt++ and the loop test
WaitDone ==
  /\ retry.pc = "waiting"
  /\ now' = now + retry.waits[Len(retry.waits)]
  /\ retry' = loopOrThrow([retry EXCEPT !.attempt = @ + 1])
  /\ UNCHANGED <<cache, hits, misses, getCalls, evicted, cipherVars,
                 figmaVars, aiVars, wizVars, flightVars, errorReports, reported>>

\* `return await fallback()`: the fallback resolves
FallbackResolves(value) ==
  /\ retry.pc = "fallback"
  /\ retry' = [retry EXCEPT !.pc = "resolved", !.result = value,
                            !.fallbackCalls = @ + 1]
  /\ UNCHANGED <<cacheVars, cipherVars, figmaVars, aiVars, wizVars, flightVars, errorReports,
                 reported>>

\* `await fallback()` rejects: handled, then break and throw lastError
FallbackRejects(thrown) ==
  /\ retry.pc = "fallback"
  /\ retry' = fallbackRejection(retry, thrown)
  /\ errorReports' = handle(errorReports, asFallbackError(thrown), "fallback",
                            now, reported + 1)
  /\ reported' = reported + 1
  /\ UNCHANGED <<cacheVars, cipherVars, figmaVars, aiVars, wizVars, flightVars>>

InputThrown == {Thrown(TRUE, "E1"), Thrown(TRUE, "E2"), Thrown(FALSE, "text")}

InputMaxRetries == {<<>>, <<0>>, <<1>>, <<4>>}

InputRetryDelays == {<<>>, <<50>>}

NextRetry ==
  \/ \E m \in InputMaxRetries, d \in InputRetryDelays, f \in BOOLEAN :
       HandleAsync(m, d, f)
  \/ AttemptResolves("value")
  \/ \E x \in InputThrown : AttemptRejects(x)
  \/ WaitDone
  \/ FallbackResolves("fallback value")
  \/ \E x \in InputThrown : FallbackRejects(x)

SpecRetry == Init /\ [][NextRetry]_vars

\* the reports of MaxStored errors handled one a millisecond up to now
StoredReports ==
  [i \in 1..MaxStored |-> ErrorReport("E1", "stored", i - MaxStored, i)]

InitReports ==
  /\ CacheInit /\ CipherInit /\ FigmaInit /\ AIInit /\ WizardInit
  /\ FlightInit
  /\ errorReports = StoredReports
  /\ reported = MaxStored
  /\ retry = NoRetry

NextReports ==
  \/ Handle("E2", "action")
  \/ \E limit \in {1, 10} : GetRecentErrors(limit)
  \/ ErrorTick

SpecReports == InitReports /\ [][NextReports]_vars

(***************************************************************************)
(* AIProvider.generateCode (src/services/core/ai-provider.ts).  The prompt *)
(* is the string buildCodeGenerationPrompt returned, as char codes; what   *)
(* generateCompletion does is the environment's choice: a response or a    *)
(* throw.                                                                  *)
(***************************************************************************)
\* generateCode: this.cache.set(cacheKey, response.content, 3600)
AI_TTL == 3600

\* 100000 * costPerToken for the provider 'openai'
COST_PER_TOKEN == 10

\* one round of hashString's loop, ((hash << 5) - hash) + char followed by
\* hash & hash: 31 * hash + char brought into the signed 32-bit range.  The
\* product is formed on the two 16-bit halves of hash.
hashRound(hash, char) ==
  LET lo == (hash % 65536) * 31 + char
      hi == (((hash \div 65536) % 65536) * 31 + (lo \div 65536)) % 65536
  IN  IF hi >= 32768 THEN (hi - 65536) * 65536 + (lo % 65536)
      ELSE hi * 65536 + (lo % 65536)

\* the loop of hashString from index i on
RECURSIVE hashFrom(_, _, _)
hashFrom(str, i, hash) ==
  IF i > Len(str) THEN hash
  ELSE hashFrom(str, i + 1, hashRound(hash, str[i]))

Digits36 ==
  <<"0", "1", "2", "3", "4", "5", "6", "7", "8", "9", "a", "b", "c", "d",
    "e", "f", "g", "h", "i", "j", "k", "l", "m", "n", "o", "p", "q", "r",
    "s", "t", "u", "v", "w", "x", "y", "z">>

\* the digits in base 36 of the magnitude of n <= 0
RECURSIVE base36(_)
base36(n) ==
  IF n > -36 THEN <<Digits36[1 - n]>>
  ELSE base36((n + 35) \div 36) \o <<Digits36[((36 - (n % 36)) % 36) + 1]>>

\* hash.toString(36)
toString36(n) == IF n < 0 THEN <<"-">> \o base36(n) ELSE base36(-n)

\* hashString
hashString(str) == toString36(hashFrom(str, 1, 0))

\* `ai-code-${this.hashString(prompt)}`
aiCacheKey(prompt) == PrefixAiCode \o hashString(prompt)

\* what generateCompletion gives
Completion(kind, content, totalTokens, model, responseTime) ==
  [kind |-> kind, content |-> content, totalTokens |-> totalTokens,
   model |-> model, responseTime |-> responseTime]

\* generateCompletion before it returns: the average response time
timedStats(stats, completion) ==
  [stats EXCEPT !.averageResponseTime =
     [num |-> @.num * stats.totalRequests + completion.responseTime * @.den,
      den |-> @.den * (stats.totalRequests + 1)]]

\* updateUsageStats
updateUsageStats(stats, response) ==
  [stats EXCEPT !.totalRequests = @ + 1,
                !.totalTokens = @ + response.totalTokens,
                !.requestsByModel[response.model] = @ + 1,
                !.totalCost = @ + response.totalTokens * COST_PER_TOKEN]

\* what a call of generateCode settled with: the cache, the statistics, the
\* number of generateCompletion calls, and the value or the rejection
Generated(c, h, m, stats, completions, ok, value) ==
  [cache |-> c, hits |-> h, misses |-> m, usageStats |-> stats,
   completions |-> completions, requested |-> completions > 0, ok |-> ok,
   value |-> value]

\* generateCode after cache.get gave got
generateAfterGet(got, cacheKey, stats, completion, t) ==
  IF IsTruthy(got.value)
  THEN Generated(got.cache, got.hits, got.misses, stats, 0, TRUE, got.value)
  ELSE IF completion.kind # "ok"
  THEN Generated(got.cache, got.hits, got.misses, stats, 1, FALSE, JsNull)
  ELSE Generated(cacheAfterSet(got.cache, cacheKey, completion.content,
                               AI_TTL, t),
                 got.hits, got.misses,
                 updateUsageStats(timedStats(stats, completion), completion),
                 1, TRUE, completion.content)

\* generateCode
generateCode(prompt, c, h, m, t, stats, completion) ==
  generateAfterGet(getResult(c, h, m, aiCacheKey(prompt), t),
                   aiCacheKey(prompt), stats, completion, t)

\* a call of generateCode that settled with r
GenerateStep(prompt, r, completion) ==
  /\ CacheStep(r, aiCacheKey(prompt), AI_TTL)
  /\ usageStats' = r.usageStats
  /\ ai' = [op |-> "generateCode", key |-> aiCacheKey(prompt),
            completions |-> r.completions, ok |-> r.ok,
            returned |-> r.value,
            content |-> IF r.requested THEN completion.content ELSE JsNull]
  /\ errorReports' = IF r.requested /\ ~r.ok
                     THEN handle(errorReports, "API error",
                                 "OpenAIProvider.generateCompletion", now,
                                 reported + 1)
                     ELSE errorReports
  /\ reported' = IF r.requested /\ ~r.ok THEN reported + 1 ELSE reported
  /\ UNCHANGED <<now, cipherVars, configToken, storage, hook, effect, last,
                 retry, wizVars, flightVars>>

\* aiProvider.generateCode(...)
GenerateCode(prompt, completion) ==
  /\ hits + misses < MaxFetches
  /\ GenerateStep(prompt,
                  generateCode(prompt, cache, hits, misses, now, usageStats,
                               completion),
                  completion)

\* 'Aa' and 'BB', which hashString maps to the same key, and 'zzzzzz',
\* whose hash wraps around the 32-bit range to a negative number
PromptAa == <<65, 97>>

PromptBB == <<66, 66>>

PromptLong == <<122, 122, 122, 122, 122, 122>>

InputPrompts == {PromptAa, PromptBB, PromptLong}

CodeX == JsString(<<"x">>)

InputCompletions ==
  {Completion("ok", CodeX, 7, "gpt-4o", 20),
   Completion("ok", JsString(<<>>), 3, "gpt-4o", 10),
   Completion("error", JsNull, 0, "gpt-4o", 0)}

\* the provider over a cache that is at its capacity
NextAI ==
  \/ \E p \in InputPrompts, c \in InputCompletions : GenerateCode(p, c)
  \/ Clear(PrefixAiCode)
  \/ \E t \in ClientInstants : ClientTick(t)

SpecAI == InitFull /\ [][NextAI]_vars

(***************************************************************************)
(* useWizard and useWizardStep (src/hooks/ui/use-wizard.ts), over a        *)
(* config of two steps, 'a' and the optional 'b'.  isOptional and          *)
(* canGoNext are true, false or undefined, written as strings; a step's    *)
(* data is undefined or an object, a function from its keys.  An action is *)
(* an event handler together with the render that applies the state        *)
(* updates it queued; the effect of that render runs before the next       *)
(* handler.                                                                *)
(***************************************************************************)
\* JSON.stringify({ steps, currentStepIndex }) as the effect writes it
persisted(state) ==
  [steps |-> state.steps, currentStepIndex |-> state.currentStepIndex]

\* the useState initializer: { ...initialState, ...parsed } when an item is
\* stored and persistState is set
initialOrRestored(persistState, item) ==
  IF persistState /\ item # NoSaved
  THEN [initialWizard EXCEPT !.steps = item[1].steps,
                             !.currentStepIndex = item[1].currentStepIndex]
  ELSE initialWizard

\* currentStep.isValid || currentStep.isOptional
validOrOptional(step) == IF step.isValid THEN "true" ELSE step.isOptional

\* (completedSteps / totalSteps) * 100, the config having two steps
progressOf(steps) ==
  IF Len(steps) > 0
  THEN (Cardinality({i \in 1..Len(steps) : steps[i].isCompleted}) * 100)
         \div Len(steps)
  ELSE 0

\* the updater of updateDerivedState on { ...prevState, ...newState }
derived(updatedState) ==
  [updatedState EXCEPT
     !.progress = progressOf(updatedState.steps),
     !.canGoNext =
        IF updatedState.currentStepIndex + 1 \in 1..Len(updatedState.steps)
        THEN validOrOptional(updatedState.steps[updatedState.currentStepIndex + 1])
        ELSE "false",
     !.canGoPrevious = updatedState.currentStepIndex > 0,
     !.isCompleted =
        \A i \in 1..Len(updatedState.steps) :
           updatedState.steps[i].isCompleted
             \/ updatedState.steps[i].isOptional = "true"]

\* updateDerivedState(newState) applied to prevState
updateDerivedState(prevState, newState) == derived(newState @@ prevState)

\* the steps updateStepData, markStepCompleted and markStepValid pass on:
\* state.steps.map(step => step.id === stepId ? {...step, ...} : step)
withData(steps, stepId, data) ==
  [i \in 1..Len(steps) |->
     IF steps[i].id = stepId
     THEN [steps[i] EXCEPT !.data = mergeData(steps[i].data, data)]
     ELSE steps[i]]

withCompleted(steps, stepId, completed) ==
  [i \in 1..Len(steps) |->
     IF steps[i].id = stepId
     THEN [steps[i] EXCEPT !.isCompleted = completed]
     ELSE steps[i]]

withValid(steps, stepId, valid) ==
  [i \in 1..Len(steps) |->
     IF steps[i].id = stepId
     THEN [steps[i] EXCEPT !.isValid = valid]
     ELSE steps[i]]

\* useWizardStep.updateData(data): updateStepData and, with a validation
\* function that gives valid, markStepValid, both over the steps of the
\* render, state.steps; their updaters run in the order they were queued
updateData(state, stepId, data, validationFn, valid) ==
  IF validationFn
  THEN updateDerivedState(
         updateDerivedState(state,
                            [steps |-> withData(state.steps, stepId, data)]),
         [steps |-> withValid(state.steps, stepId, valid)])
  ELSE updateDerivedState(state,
                          [steps |-> withData(state.steps, stepId, data)])

\* the component using useWizard(config) mounts
WizardMount(persistState) ==
  /\ wizardEffect = "unmounted"
  /\ wizardConfig' = [persistState |-> persistState]
  /\ wizard' = initialOrRestored(persistState, wizardStorage)
  /\ wizardEffect' = "pending"
  /\ wizardLast' = "mount"
  /\ UNCHANGED <<cacheVars, cipherVars, figmaVars, aiVars, errVars, flightVars,
                 wizardStorage>>

\* the component unmounts (the page is left or reloaded)
WizardUnmount ==
  /\ wizardEffect = "idle"
  /\ wizard' = initialWizard
  /\ wizardEffect' = "unmounted"
  /\ wizardLast' = "unmount"
  /\ UNCHANGED <<cacheVars, cipherVars, figmaVars, aiVars, errVars, flightVars,
                 wizardConfig, wizardStorage>>

\* a handler of the wizard that left the state new; rendered: whether it
\* queued an update, and whether the update carried steps
WizardStep(op, new, rendered, item) ==
  /\ wizard' = new
  /\ wizardStorage' = item
  /\ wizardEffect' = IF rendered = "none" THEN "idle"
                     ELSE IF rendered = "steps" THEN "pending"
                     ELSE IF new.currentStepIndex # wizard.currentStepIndex
                     THEN "pending"
                     ELSE "idle"
  /\ wizardLast' = op
  /\ UNCHANGED <<cacheVars, cipherVars, figmaVars, aiVars, errVars, flightVars,
                 wizardConfig>>

\* goToStep(stepIndex)
GoToStep(stepIndex) ==
  /\ wizardEffect = "idle"
  /\ IF stepIndex >= 0 /\ stepIndex < Len(wizard.steps)
     THEN WizardStep("goToStep",
                     updateDerivedState(wizard, [currentStepIndex |-> stepIndex]),
                     "index", wizardStorage)
     ELSE WizardStep("goToStep", wizard,
                     "none", wizardStorage)

\* nextStep()
NextStep ==
  /\ wizardEffect = "idle"
  /\ IF wizard.canGoNext = "true"
          /\ wizard.currentStepIndex < Len(wizard.steps) - 1
     THEN WizardStep("nextStep",
                     updateDerivedState(wizard,
                       [currentStepIndex |-> wizard.currentStepIndex + 1]),
                     "index", wizardStorage)
     ELSE WizardStep("nextStep", wizard,
                     "none", wizardStorage)

\* previousStep()
PreviousStep ==
  /\ wizardEffect = "idle"
  /\ IF wizard.canGoPrevious /\ wizard.currentStepIndex > 0
     THEN WizardStep("previousStep",
                     updateDerivedState(wizard,
                       [currentStepIndex |-> wizard.currentStepIndex - 1]),
                     "index", wizardStorage)
     ELSE WizardStep("previousStep", wizard,
                     "none", wizardStorage)

\* updateStepData(stepId, data)
UpdateStepData(stepId, data) ==
  /\ wizardEffect = "idle"
  /\ WizardStep("updateStepData",
                updateDerivedState(wizard,
                                   [steps |-> withData(wizard.steps, stepId, data)]),
                "steps", wizardStorage)

\* markStepCompleted(stepId, completed), and markCompleted of useWizardStep
MarkStepCompleted(stepId, completed) ==
  /\ wizardEffect = "idle"
  /\ WizardStep("markStepCompleted",
                updateDerivedState(wizard,
                  [steps |-> withCompleted(wizard.steps, stepId, completed)]),
                "steps", wizardStorage)

\* markStepValid(stepId, valid), and markValid of useWizardStep
MarkStepValid(stepId, valid) ==
  /\ wizardEffect = "idle"
  /\ WizardStep("markStepValid",
                updateDerivedState(wizard,
                  [steps |-> withValid(wizard.steps, stepId, valid)]),
                "steps", wizardStorage)

\* resetWizard(): the update, and localStorage.removeItem(storageKey)
ResetWizard ==
  /\ wizardEffect = "idle"
  /\ WizardStep("resetWizard",
                updateDerivedState(wizard,
                  [steps |-> freshSteps, currentStepIndex |-> 0,
                   isLoading |-> FALSE]),
                "steps",
                IF wizardConfig.persistState THEN NoSaved ELSE wizardStorage)

\* completeWizard()
CompleteWizard ==
  /\ wizardEffect = "idle"
  /\ WizardStep("completeWizard",
                updateDerivedState(wizard,
                  [steps |-> [i \in 1..Len(wizard.steps) |->
                                [wizard.steps[i] EXCEPT !.isCompleted = TRUE]]]),
                "steps", wizardStorage)

\* updateData(data) of useWizardStep(stepId, wizard, validationFn)
UpdateData(stepId, data, validationFn, valid) ==
  /\ wizardEffect = "idle"
  /\ WizardStep("updateData",
                updateData(wizard, stepId, data, validationFn, valid),
                "steps", wizardStorage)

\* the persist effect: localStorage.setItem, which stores or throws
persistEffect(persistState, state, item, stored) ==
  IF persistState /\ stored THEN <<persisted(state)>> ELSE item

\* the effect of the last render runs
PersistEffect(stored) ==
  /\ wizardEffect = "pending"
  /\ wizardStorage' = persistEffect(wizardConfig.persistState, wizard,
                                    wizardStorage, stored)
  /\ wizardEffect' = "idle"
  /\ UNCHANGED <<cacheVars, cipherVars, figmaVars, aiVars, errVars, flightVars, wizard,
                 wizardConfig, wizardLast>>

\* the data the step forms pass on
InputStepData == {[x |-> "1"], [y |-> "2"]}

NextWizard ==
  \/ \E p \in BOOLEAN : WizardMount(p)
  \/ WizardUnmount
  \/ \E i \in {-1, 0, 1} : GoToStep(i)
  \/ NextStep
  \/ PreviousStep
  \/ \E d \in InputStepData : UpdateStepData("a", d)
  \/ \E c \in BOOLEAN : MarkStepCompleted("a", c)
  \/ \E v \in BOOLEAN : MarkStepValid("a", v)
  \/ ResetWizard
  \/ CompleteWizard
  \/ \E d \in InputStepData, f \in BOOLEAN, v \in BOOLEAN :
       UpdateData("a", d, f, v)
  \/ \E stored \in BOOLEAN : PersistEffect(stored)

SpecWizard == Init /\ [][NextWizard]_vars

(***************************************************************************)
(* Properties of the cache.                                                *)
(***************************************************************************)
\* a key no operation of the model has stored
KeyFresh == <<"f","i","g","m","a","-","n","o","d","e","s","-","B">>

TestKeys == InputKeys \cup {KeyFresh, KeyBulk}

NonNullData == {DataOk, JsString(<<>>), JsCyclic}

PositiveTTLs == {1, USER_TTL, DEFAULT_TTL}

EntryOf(c, key) == MapGet(c, key)[1]

\* C1: in every reachable cache state, for every key k, non-null value v and
\* ttl > 0, set(k, v, ttl) followed at once by get(k) returns v.
C1_SetThenGetReturnsValue ==
  \A k \in TestKeys, v \in NonNullData, ttl \in PositiveTTLs :
    getResult(cacheAfterSet(cache, k, v, ttl, now), hits, misses, k, now).value = v

\* C2 as stated: for every entry whose expiry time is reached or passed
\* (now >= expires, the instant of equality included), get(k) returns a miss
\* and removes the entry.
C2_MissFromExpiryInstant ==
  \A k \in Keys(cache) :
    EntryOf(cache, k).expires <= now =>
      LET r == getResult(cache, hits, misses, k, now)
      IN r.value = Miss /\ k \notin Keys(r.cache)

\* C2 as amended: once the clock is strictly past the expiry time
\* (now > expires) get(k) returns a miss, removes k's entry and getStats
\* counts only the other live entries; at the instant now = expires get(k)
\* still returns the stored value and keeps the entry.
C2_MissAfterExpiry ==
  \A k \in Keys(cache) :
    LET e == EntryOf(cache, k)
        r == getResult(cache, hits, misses, k, now)
    IN /\ e.expires < now =>
            /\ r.value = Miss
            /\ k \notin Keys(r.cache)
            /\ statsOf(r.cache, r.hits, r.misses, now).entries =
                 Cardinality({j \in Keys(cache) :
                                j # k /\ EntryOf(cache, j).expires >= now})
       /\ e.expires = now => r.value = e.data /\ r.cache = cache

\* a set with ttl USER_TTL was followed by more than USER_TTL seconds: some
\* entry is still stored although its expiry time has passed
C2_Witness == \E k \in Keys(cache) : EntryOf(cache, k).expires < now

ExpiresOf(entries) == {entries[i].expires : i \in 1..Len(entries)}

\* the entries whose key is in keys, in their order
EntriesWithKeys(entries, keys) == SelectSeq(entries, LAMBDA e : e.key \in keys)

\* the entries whose key is not in keys, in their order
EntriesWithoutKeys(entries, keys) ==
  SelectSeq(entries, LAMBDA e : e.key \notin keys)

C4_AtMostMaxEntries == Len(cache) <= MAX_ENTRIES

\* the 1001st distinct key was inserted into a full cache
C4_Witness ==
  /\ evicted # {}
  /\ \E k \in Keys(cache) : k \notin Keys(FullCache)

\* p is an initial segment of key
IsPrefixOf(p, key) == \E n \in 0..Len(key) : SubSeq(key, 1, n) = p

TestPrefixes ==
  InputPrefixes \cup
    {<<>>, <<"f">>, <<"c","o","d","e","-">>, <<"i","g","m","a","-">>,
     KeyFigmaUser, KeyFigmaFile \o <<"x">>, <<"f","i","g","m","a","-","U">>}

\* C5: clear(prefix) removes exactly the entries whose key starts with
\* prefix (case-sensitive) and leaves the others as they are, in order;
\* clear() and clear('') remove everything; clear('figma-') keeps every
\* 'ai-code-' entry.
C5_ClearRemovesExactlyPrefix ==
  /\ \A p \in TestPrefixes :
       cacheAfterClear(cache, p) =
         IF p = NoPrefix THEN <<>>
         ELSE SelectSeq(cache, LAMBDA e : ~IsPrefixOf(p, e.key))
  /\ SelectSeq(cacheAfterClear(cache, PrefixFigma),
               LAMBDA e : IsPrefixOf(PrefixAiCode, e.key))
       = SelectSeq(cache, LAMBDA e : IsPrefixOf(PrefixAiCode, e.key))

\* the cache holds 'figma-' entries and an 'ai-code-' entry
C5_Witness ==
  /\ KeyFigmaUser \in Keys(cache)
  /\ KeyFigmaFile \in Keys(cache)
  /\ KeyAiCode \in Keys(cache)

\* C6: has(k) is true exactly when get(k) in the same state takes its hit
\* path (the key is present and not expired); get then returns the stored
\* value, and returns a miss when has(k) is false.
C6_HasIffGetHits ==
  \A k \in TestKeys :
    LET r == getResult(cache, hits, misses, k, now)
    IN /\ hasResult(cache, k, now) <=> (r.hits = hits + 1 /\ r.misses = misses)
       /\ hasResult(cache, k, now) => r.value = EntryOf(cache, k).data
       /\ ~hasResult(cache, k, now) => r.value = Miss

\* one key is live, another is stored but expired
C6_Witness ==
  \E k1, k2 \in Keys(cache) :
    /\ EntryOf(cache, k1).expires >= now
    /\ EntryOf(cache, k2).expires < now

\* two fractions are the same number
RateEq(a, b) == a.num * b.den = b.num * a.den

StatsEq(s1, s2) ==
  /\ s1.size = s2.size
  /\ s1.entries = s2.entries
  /\ RateEq(s1.hitRate, s2.hitRate)

\* C7 as stated: get(k) changes nothing but k's expired entry: every other
\* entry and everything getStats reports are the same before and after.
C7_GetChangesNothingObservable ==
  \A k \in TestKeys :
    LET r == getResult(cache, hits, misses, k, now)
    IN /\ SelectSeq(r.cache, LAMBDA e : e.key # k)
            = SelectSeq(cache, LAMBDA e : e.key # k)
       /\ StatsEq(statsOf(r.cache, r.hits, r.misses, now),
                  statsOf(cache, hits, misses, now))

\* C7 as amended: get(k) leaves every other entry as it is, removes k's
\* entry exactly when it is expired, leaves size and entries of getStats
\* unchanged, and adds one to exactly one of the hit and miss counters.
C7_GetFrame ==
  \A k \in TestKeys :
    LET r == getResult(cache, hits, misses, k, now)
        before == statsOf(cache, hits, misses, now)
        after == statsOf(r.cache, r.hits, r.misses, now)
    IN /\ SelectSeq(r.cache, LAMBDA e : e.key # k)
            = SelectSeq(cache, LAMBDA e : e.key # k)
       /\ IF k \in Keys(cache) /\ EntryOf(cache, k).expires < now
          THEN k \notin Keys(r.cache)
          ELSE r.cache = cache
       /\ after.size = before.size
       /\ after.entries = before.entries
       /\ r.hits + r.misses = hits + misses + 1
       /\ r.hits >= hits /\ r.misses >= misses

\* get has been called on a cache that holds one expired entry next to
\* another entry
C7_Witness ==
  /\ hits + misses > 0
  /\ \E k1, k2 \in Keys(cache) : k1 # k2 /\ EntryOf(cache, k1).expires < now

\* C8: hits and misses count the get calls on live keys and on absent or
\* expired keys; getStats().hitRate is hits / (hits + misses), is 0 before
\* the first get, and its denominator is never 0.
C8_HitRate ==
  LET rate == statsOf(cache, hits, misses, now).hitRate
  IN /\ hits = getCalls.live
     /\ misses = getCalls.dead
     /\ rate.den # 0
     /\ IF getCalls.live + getCalls.dead = 0
        THEN rate.num = 0
        ELSE RateEq(rate, [num |-> getCalls.live,
                           den |-> getCalls.live + getCalls.dead])

\* get has returned a value once and a miss once
C8_Witness == getCalls.live >= 1 /\ getCalls.dead >= 1

(***************************************************************************)
(* Properties of the cipher.                                               *)
(***************************************************************************)
\* the secret the key is derived from, given ENCRYPTION_KEY
SecretOf(keyFromEnv) ==
  IF keyFromEnv = Unset \/ keyFromEnv = <<>> THEN FallbackKey ELSE keyFromEnv

\* decrypt was called on what the last encrypt returned, with the same
\* key-derivation secret in force at both calls
DecryptedOwnOutput ==
  /\ enc.called
  /\ dec.called
  /\ dec.input = enc.out
  /\ SecretOf(dec.secret) = SecretOf(enc.secret)

\* C9 as stated: decrypt(encrypt(s)) = s under one secret, also when one of
\* the two calls takes its failure path.
C9_RoundTripAlways == DecryptedOwnOutput => dec.out = enc.input

\* C9 as amended: decrypt(encrypt(s)) = s under one secret when neither
\* call takes its failure path; when encrypt succeeds and the library
\* throws inside decrypt, decrypt returns the ciphertext, which is not s.
C9_RoundTripNominal ==
  DecryptedOwnOutput =>
    /\ (~enc.threw /\ ~dec.threw) => (dec.out = enc.input /\ ~dec.failed)
    /\ (~enc.threw /\ dec.threw) => (dec.out = enc.out /\ dec.out # enc.input)

\* a token with multi-byte characters went through encrypt and decrypt
\* under a configured secret, neither call failing
C9_Witness ==
  /\ DecryptedOwnOutput
  /\ ~enc.threw /\ ~dec.threw
  /\ enc.input = <<233, 8364>>
  /\ enc.secret = SecretProd

\* C10: when encrypt succeeds, its base64-decoded output is the 12-byte
\* nonce, then the ciphertext, then the 16-byte tag, and is 28 bytes longer
\* than the UTF-8 plaintext.
C10_RawLayout ==
  (enc.called /\ ~enc.failed) =>
    LET raw == base64Decode(enc.out)
        plain == utf8Encode(enc.input)
        key == getEncryptionKey(enc.secret)
        text == gcmEncrypt(key, enc.iv, plain)
    IN /\ Len(raw) = Len(plain) + 28
       /\ Len(enc.iv) = 12
       /\ SubSeq(raw, 1, 12) = enc.iv
       /\ SubSeq(raw, 13, 12 + Len(plain)) = text
       /\ SubSeq(raw, 13 + Len(plain), Len(raw)) = gcmTag(key, enc.iv, text)
       /\ Len(gcmTag(key, enc.iv, text)) = 16

\* encrypt succeeded on a token whose byte length differs from its number
\* of characters
C10_Witness ==
  /\ enc.called
  /\ ~enc.failed
  /\ enc.input = <<233, 8364>>
  /\ Len(utf8Encode(enc.input)) = 5

\* the decoded bytes cannot hold a nonce and a tag
TooShort(input) == Len(base64Decode(input)) < 28

\* the last 16 decoded bytes are not the tag of the first 12 and the middle
\* under the key in force
TagMismatch(input, secret) ==
  LET raw == base64Decode(input)
      n == Len(raw)
  IN /\ n >= 28
     /\ SubSeq(raw, n - 15, n) #
          gcmTag(getEncryptionKey(secret), SubSeq(raw, 1, 12),
                 SubSeq(raw, 13, n - 16))

\* the input is what encrypt produced under another key
OtherKey(input, secret) ==
  /\ enc.called
  /\ ~enc.failed
  /\ input = enc.out
  /\ getEncryptionKey(enc.secret) # getEncryptionKey(secret)

\* the input has a character that is neither of a base64 alphabet nor '='
InvalidBase64(input) ==
  \E i \in 1..Len(input) : Base64Value(input[i]) < 0 /\ input[i] # Base64Pad[1]

\* C11 as stated: decrypt returns its input unchanged when the input is too
\* short, fails the tag, is invalid base64 or comes from another key, and
\* encrypt returns the plaintext when the primitive throws.
C11_MalformedReturnedUnchanged ==
  /\ (dec.called /\ (\/ TooShort(dec.input)
                     \/ TagMismatch(dec.input, dec.secret)
                     \/ InvalidBase64(dec.input)
                     \/ OtherKey(dec.input, dec.secret)))
       => dec.out = dec.input
  /\ (enc.called /\ enc.threw) => enc.out = enc.input

\* C11 as amended: decrypt returns its input unchanged when the bytes its
\* base64 characters decode to are too short, fail the tag or come from
\* another key, or when the library throws; characters outside the
\* alphabet are skipped and do not by themselves make decrypt fall back.
\* encrypt returns the plaintext when the primitive throws.
C11_UndecodableReturnedUnchanged ==
  /\ (dec.called /\ (\/ TooShort(dec.input)
                     \/ TagMismatch(dec.input, dec.secret)
                     \/ OtherKey(dec.input, dec.secret)
                     \/ dec.threw))
       => (dec.out = dec.input /\ dec.failed)
  /\ (dec.called /\ InvalidBase64(dec.input) /\ ~dec.failed)
       => (~TooShort(dec.input) /\ ~TagMismatch(dec.input, dec.secret))
  /\ (enc.called /\ enc.threw) => (enc.out = enc.input /\ enc.failed)

\* decrypt was given, with nothing thrown by accident, a ciphertext made
\* under another key and fell back to its input
C11_Witness ==
  /\ dec.called
  /\ ~dec.threw
  /\ OtherKey(dec.input, dec.secret)
  /\ enc.input = TokenFigd
  /\ dec.out = dec.input

\* values isEncrypted is asked about: what encrypt returned and what
\* decrypt was given
CheckedValues ==
  (IF enc.called THEN {enc.out} ELSE {}) \cup
  (IF dec.called THEN {dec.input} ELSE {})

\* C12 as stated: isEncrypted is true exactly from 28 decoded bytes on, and
\* true for what encrypt returns on a non-empty input.
C12_TrueFrom28Bytes ==
  /\ \A v \in CheckedValues : isEncrypted(v) <=> Len(base64Decode(v)) >= 28
  /\ (enc.called /\ enc.input # <<>>) => isEncrypted(enc.out)

\* C12 as amended: isEncrypted is true exactly from 29 decoded bytes on
\* (nonce, tag and one byte of ciphertext): true for what a successful
\* encrypt returns on a non-empty input, false for what it returns on ''.
C12_TrueFrom29Bytes ==
  /\ \A v \in CheckedValues : isEncrypted(v) <=> Len(base64Decode(v)) >= 29
  /\ (enc.called /\ ~enc.failed /\ enc.input # <<>>) => isEncrypted(enc.out)
  /\ (enc.called /\ ~enc.failed /\ enc.input = <<>>) => ~isEncrypted(enc.out)

\* encrypt succeeded on the empty string and on nothing shorter: its
\* output decodes to exactly 28 bytes
C12_Witness ==
  /\ enc.called
  /\ ~enc.failed
  /\ enc.input = <<>>
  /\ Len(base64Decode(enc.out)) = 28
  /\ ~isEncrypted(enc.out)

(***************************************************************************)
(* Properties of the client.                                               *)
(***************************************************************************)
\* no token is configured
NoTokenConfigured == configToken = NoToken \/ configToken = <<>>

\* the cache holds for key an entry that has not expired and whose data is
\* an object
HoldsObject(key) ==
  \E i \in 1..Len(cache) :
    /\ cache[i].key = key
    /\ cache[i].expires >= now
    /\ cache[i].data.kind = "object"

\* the message of the failure the environment chose
FailureMessage(o) ==
  CASE o = Http401 -> "Figma API error: 401 Unauthorized. Invalid token"
    [] o = Http404 -> "Figma API error: 404 Not Found. File not found"
    [] o = NetworkError -> "Network error"
    [] o = Timeout -> "Request timeout"
    [] o = BadJson -> "Unexpected end of JSON input"
    [] OTHER -> "none"

\* what a call that needs a user or a file settles with, by the state it
\* is made in: the cached object; else the failure of having no token;
\* else what the environment answered
SettlesAsExpected(key, o) ==
  IF HoldsObject(key)
  THEN /\ last'.ok
       /\ last'.value = EntryOf(cache, key).data
       /\ ~last'.requested
  ELSE IF NoTokenConfigured
  THEN /\ ~last'.ok
       /\ last'.error = MsgNoToken
       /\ ~last'.requested
  ELSE /\ last'.requested
       /\ (o.kind = "ok") => (last'.ok /\ last'.value = o.body)
       /\ (o.kind # "ok") => (~last'.ok /\ last'.error = FailureMessage(o))

\* C14: testConnection settles with a result whatever the user request
\* does: success false with the message of the failure when there is no
\* token or the request fails, success true only with a user object.
C14_TestConnectionNeverRejects ==
  [][(last'.op = "testConnection" /\ TestConnection(last'.outcome)) =>
         /\ SettlesAsExpected(KeyFigmaUser, last'.outcome)
         /\ last'.ok => (last'.value.kind = "object" /\ last'.error = Undefined)
         /\ ~last'.ok => (last'.value = JsUndefined /\ last'.error # Undefined)]_vars

\* testConnection reported the failure of a request answered with 401
C14_Witness ==
  /\ last.op = "testConnection"
  /\ last.requested
  /\ ~last.ok
  /\ last.error = "Figma API error: 401 Unauthorized. Invalid token"
  /\ last.handled = <<"FigmaClient.makeRequest", "FigmaClient.testConnection">>

\* the file key each URL of the model carries
ExpectedKey(url) ==
  CASE url = UrlFile -> <<"A">>
    [] url = UrlDesign -> <<"A">>
    [] url = UrlTwice -> <<"A">>
    [] OTHER -> NoFileKey

\* C15: validateUrl on a URL without a file key gives valid=false, the
\* 'Invalid Figma URL format' error and no fileKey, and touches neither
\* network nor cache; on a URL with a key it gives valid=true with that
\* key exactly when getFile(key) succeeds, else valid=false with the
\* message of getFile's failure.
C15_ValidateUrlNeverRejects ==
  [][(last'.op = "validateUrl" /\ ValidateUrl(last'.url, last'.outcome)) =>
      LET u == last'.url
          o == last'.outcome
      IN /\ IF ExpectedKey(u) = NoFileKey
            THEN /\ ~last'.ok
                 /\ last'.error = MsgInvalidUrlFormat
                 /\ last'.fileKey = NoFileKey
                 /\ ~last'.requested
                 /\ UNCHANGED <<cache, hits, misses>>
            ELSE LET file == getFile(ExpectedKey(u), cache, hits, misses, now,
                                     getToken(configToken, env), o)
                 IN /\ last'.ok <=> file.ok
                    /\ last'.ok => (last'.fileKey = ExpectedKey(u)
                                      /\ last'.error = Undefined)
                    /\ ~last'.ok => (last'.fileKey = NoFileKey
                                       /\ last'.error = file.error)
                    /\ last'.requested <=>
                         (~HoldsObject(FileCacheKey(ExpectedKey(u)))
                            /\ ~NoTokenConfigured)]_vars

\* validateUrl found a key and reported the failure of getFile
C15_Witness ==
  /\ last.op = "validateUrl"
  /\ last.requested
  /\ ~last.ok
  /\ last.fileKey = NoFileKey
  /\ last.error = "Figma API error: 404 Not Found. File not found"

(***************************************************************************)
(* Properties of the hook.                                                 *)
(***************************************************************************)
\* what TokenEncryption.encrypt gives for the tokens the user connects with
EncryptedTokens ==
  {encrypt(tok, secret, iv, FALSE).value :
     tok \in HookTokens, secret \in InputSecrets, iv \in InputIVs \cup {ClientIV}}

\* C13: what localStorage holds under 'figma-token' is an output of
\* TokenEncryption.encrypt, never the plaintext token.
C13_StoredTokenEncrypted ==
  storage # NoItem => (storage \in EncryptedTokens /\ storage \notin HookTokens)

\* the ConnectionResult testConnection gives in the state connect is called
\* in, the token being set: the cached user, else what the environment
\* answered to the request
ExpectedConnection(o) ==
  IF HoldsObject(KeyFigmaUser)
  THEN ConnectionResult(TRUE, EntryOf(cache, KeyFigmaUser).data, Undefined)
  ELSE IF o.kind = "ok" THEN ConnectionResult(TRUE, o.body, Undefined)
  ELSE ConnectionResult(FALSE, JsUndefined, FailureMessage(o))

C17_DisconnectResets ==
  [][(last'.op = "disconnect" /\ Disconnect) =>
       /\ hook' = [isConnected |-> FALSE, isLoading |-> FALSE,
                   error |-> Null, fileData |-> JsNull,
                   connectionResult |-> NullResult]
       /\ storage' = NoItem]_vars

\* disconnect was called in a connected state that held a file and a
\* stored token
C17_Witness ==
  /\ last.op = "disconnect"
  /\ last.wasConnected
  /\ hook.fileData = JsNull
  /\ storage = NoItem
  /\ \E e \in fetched : e.key = KeyFigmaFile
  /\ \E e \in fetched : e.key = KeyFigmaUser

\* C18: loadFile(url) settles: without a file key or when getFile fails,
\* isLoading=false and error is the failure's message while fileData,
\* isConnected and connectionResult are as before; on success fileData is
\* the file, isLoading=false and error=null.
C18_LoadFileSettles ==
  [][(last'.op = "loadFile" /\ LoadFile(last'.url, last'.outcome)) =>
      LET key == ExpectedKey(last'.url)
          o == last'.outcome
          failed(message) ==
            hook' = [hook EXCEPT !.isLoading = FALSE, !.error = message]
          loaded(file) ==
            hook' = [hook EXCEPT !.fileData = file, !.isLoading = FALSE,
                                 !.error = Null]
      IN IF key = NoFileKey
         THEN failed("Invalid Figma URL") /\ ~last'.requested
         ELSE IF HoldsObject(FileCacheKey(key))
         THEN loaded(EntryOf(cache, FileCacheKey(key)).data)
                /\ ~last'.requested
         ELSE IF NoTokenConfigured
         THEN failed(MsgNoToken) /\ ~last'.requested
         ELSE /\ last'.requested
              /\ IF o.kind = "ok" THEN loaded(o.body)
                 ELSE failed(FailureMessage(o))]_vars

\* loadFile failed with 404 in a state that held a file loaded before
C18_Witness ==
  /\ last.op = "loadFile"
  /\ last.requested
  /\ ~last.ok
  /\ hook.error = "Figma API error: 404 Not Found. File not found"
  /\ hook.fileData = FileV1
  /\ ~hook.isLoading
  /\ hook.isConnected

\* an automatic connect with the token tok: setToken(tok), then
\* testConnection
AutoConnected(tok) ==
  /\ last.op = "connect"
  /\ last.auto
  /\ last.token = tok
  /\ getToken(configToken, env).value = tok

\* C19: after a mount with a token stored (isConnected is false then),
\* connect(storedToken) is eventually invoked; an effect run with no token
\* stored attempts nothing; and the effect runs only after the mount or
\* after isConnected changed, so a failed automatic attempt is not
\* repeated while isConnected stays false.
C19_AutoConnect ==
  /\ (last.op = "mount" /\ storage = TokenFigd /\ ~hook.isConnected)
       ~> AutoConnected(TokenFigd)
  /\ [][EffectRuns =>
          /\ (storage = NoItem) =>
                (last'.op = "effect"
                   /\ UNCHANGED <<cache, hits, misses, configToken, hook,
                                  storage>>)
          /\ (last.op = "mount" \/ last.wasConnected # hook.isConnected)
          /\ ~(last.op = "connect" /\ last.auto /\ ~last.returned)]_vars

\* an automatic attempt after a mount with a stored token failed, and
\* the effect is not outstanding
C19_Witness ==
  /\ last.op = "connect"
  /\ last.auto
  /\ last.requested
  /\ ~last.returned
  /\ ~hook.isConnected
  /\ storage = TokenFigd
  /\ effect = "idle"

\* what the last successful request for key stored, unless the cache was
\* cleared since
StoredBefore(key) == {e \in fetched : e.key = key}

\* a call of getUser or getFile for key, its response kept for ttl
\* seconds: within ttl seconds of the request that stored a response the
\* stored response is returned and nothing is requested; after that, and
\* when nothing was stored, a request is issued; a request that fails
\* leaves no entry for key
ServedFromCache(key, ttl) ==
  /\ \A e \in StoredBefore(key) :
       IF now <= e.at + ttl * 1000
       THEN ~last'.requested /\ last'.ok /\ last'.value = e.value
       ELSE ~NoTokenConfigured => last'.requested
  /\ (StoredBefore(key) = {} /\ ~NoTokenConfigured) => last'.requested
  /\ (last'.requested /\ ~last'.ok) => ~MapHas(cache', key)

\* C20: after a successful getFile(k) every later getFile(k) within 3600
\* seconds returns the stored response without a request, and getUser the
\* same within 300 seconds; after the TTL the next call issues a request;
\* a request that fails stores nothing.
C20_CachedWithinTTL ==
  [][/\ (last'.op = "getFile" /\ GetFile(FileKeyA, last'.outcome)) =>
          ServedFromCache(KeyFigmaFile, FILE_TTL)
     /\ (last'.op = "getUser" /\ GetUser(last'.outcome)) =>
          ServedFromCache(KeyFigmaUser, USER_TTL)]_vars

(***************************************************************************)
(* Properties of the AI provider.                                          *)
(***************************************************************************)
\* the cache holds an entry for key that has not expired
HoldsUnexpired(key) ==
  MapHas(cache, key) /\ ~isExpired(EntryOf(cache, key), now)

\* a call of generateCode(prompt) whose generateCompletion, if called,
\* behaves as completion: with an unexpired entry the cached code is
\* returned, generateCompletion is not called and the statistics stay; on a
\* miss generateCompletion is called once and, when it answers, its content
\* is stored under the key for 3600 seconds, totalRequests grows by one and
\* the content is returned
GeneratesAsStated(prompt, completion) ==
  IF HoldsUnexpired(aiCacheKey(prompt))
  THEN /\ ai'.completions = 0
       /\ ai'.ok
       /\ ai'.returned = EntryOf(cache, aiCacheKey(prompt)).data
       /\ usageStats' = usageStats
  ELSE /\ ai'.completions = 1
       /\ completion.kind = "ok" =>
            /\ MapHas(cache', aiCacheKey(prompt))
            /\ EntryOf(cache', aiCacheKey(prompt)).data = completion.content
            /\ EntryOf(cache', aiCacheKey(prompt)).expires
                 = now + AI_TTL * 1000
            /\ usageStats'.totalRequests = usageStats.totalRequests + 1
            /\ ai'.ok
            /\ ai'.returned = completion.content

\* C21: generateCode returns the cached code of an unexpired entry for the
\* prompt's key without calling generateCompletion and without touching
\* the usage statistics; on a miss it calls generateCompletion exactly
\* once, stores the content under the key for 3600 seconds, adds one to
\* totalRequests and returns the content.
C21_GenerateCodeCaches ==
  [][\A p \in InputPrompts, c \in InputCompletions :
       GenerateCode(p, c) => GeneratesAsStated(p, c)]_vars

(***************************************************************************)
(* Properties of the error handler.                                        *)
(***************************************************************************)
\* the options handleAsync was called with
GivenMaxRetries == IF retry.options[1] = <<>> THEN 3 ELSE retry.options[1][1]

GivenRetryDelay ==
  IF retry.options[2] = <<>> THEN 1000 ELSE retry.options[2][1]

\* the loop of handleAsync is over
LoopOver == retry.pc \in {"fallback", "resolved", "rejected"}

\* C22: handleAsync invokes the operation at most maxRetries times (3 when
\* not given), stops at the first success and returns its value, waits
\* retryDelay * 2^(n-1) ms between the failed attempt n and attempt n+1,
\* and does not wait after the final attempt.
C22_RetriesWithBackoff ==
  retry.calls > 0 =>
    /\ Len(retry.invocations) <= GivenMaxRetries
    /\ \A n \in 1..Len(retry.invocations) :
         retry.invocations[n].ok =>
           /\ n = Len(retry.invocations)
           /\ retry.pc = "resolved"
           /\ retry.result = "value"
    /\ \A n \in 1..Len(retry.waits) :
         /\ retry.waits[n] = GivenRetryDelay * (2 ^ (n - 1))
         /\ n <= Len(retry.invocations)
         /\ ~retry.invocations[n].ok
    /\ retry.pc \in {"attempt", "waiting"} =>
         Len(retry.waits) = Len(retry.invocations)
    /\ (LoopOver /\ retry.invocations # <<>>) =>
         Len(retry.waits) = Len(retry.invocations) - 1

\* the third attempt succeeded after waits of 1000 and 2000 ms
C22_Witness ==
  /\ retry.pc = "resolved"
  /\ Len(retry.invocations) = 3
  /\ retry.waits = <<1000, 2000>>
  /\ retry.options = << <<4>>, <<>> >>

\* the error handleAsync rejects with after the operation threw thrown
ErrorOf(thrown) == IF thrown.isError THEN thrown.error ELSE "Unknown error"

\* handleAsync has settled after all attempts failed
AllFailed ==
  /\ retry.pc \in {"resolved", "rejected"}
  /\ \A n \in 1..Len(retry.invocations) : ~retry.invocations[n].ok

\* C23 as stated: for every maxRetries, when every attempt fails a supplied
\* fallback is invoked exactly once and its result returned; when it throws
\* or none is supplied handleAsync rejects with the error of the last
\* attempt; the fallback is never invoked when some attempt succeeded.
C23_FallbackForEveryMaxRetries ==
  /\ (AllFailed /\ retry.fallback) =>
       /\ retry.fallbackCalls = 1
       /\ retry.pc = "resolved" => retry.result = "fallback value"
  /\ (AllFailed /\ retry.pc = "rejected") =>
       /\ retry.invocations # <<>>
       /\ retry.result = retry.invocations[Len(retry.invocations)].error
  /\ (AllFailed /\ ~retry.fallback) => retry.pc = "rejected"
  /\ (\E n \in 1..Len(retry.invocations) : retry.invocations[n].ok) =>
       retry.fallbackCalls = 0

\* C23: for every maxRetries of at least 1, when every attempt fails a
\* supplied fallback is invoked exactly once and its result returned; when
\* it throws or none is supplied handleAsync rejects with the error of the
\* last attempt, or with Error('Unknown error') when that attempt threw
\* something that is not an Error; the fallback is never invoked when some
\* attempt succeeded.  With maxRetries below 1 neither the operation nor
\* the fallback is invoked and handleAsync rejects with 'Operation failed
\* after all retries'.
C23_FallbackAfterLastAttempt ==
  /\ (AllFailed /\ GivenMaxRetries >= 1 /\ retry.fallback) =>
       /\ retry.fallbackCalls = 1
       /\ retry.pc = "resolved" => retry.result = "fallback value"
  /\ (AllFailed /\ GivenMaxRetries >= 1 /\ retry.pc = "rejected") =>
       /\ retry.invocations # <<>>
       /\ retry.result
            = ErrorOf(retry.invocations[Len(retry.invocations)])
  /\ (AllFailed /\ ~retry.fallback) => retry.pc = "rejected"
  /\ (\E n \in 1..Len(retry.invocations) : retry.invocations[n].ok) =>
       retry.fallbackCalls = 0
  /\ (AllFailed /\ GivenMaxRetries < 1) =>
       /\ retry.invocations = <<>>
       /\ retry.fallbackCalls = 0
       /\ retry.pc = "rejected"
       /\ retry.result = "Operation failed after all retries"

\* the fallback threw after the only attempt failed with E2
C23_Witness ==
  /\ retry.pc = "rejected"
  /\ retry.fallback
  /\ retry.fallbackCalls = 1
  /\ retry.invocations = <<Thrown(TRUE, "E2")>>
  /\ retry.result = "E2"

\* C28: after any sequence of handle and getRecentErrors calls the stored
\* reports number at most 100 and are exactly the reports of the most
\* recently handled errors; getRecentErrors does not change which reports
\* later handle calls retain.
C28_MostRecentRetained ==
  /\ Len(errorReports) <= 100
  /\ {errorReports[i].seq : i \in 1..Len(errorReports)}
       = {n \in 1..reported : n > reported - 100}

(***************************************************************************)
(* Properties of the hook over tokens and calls in flight.                 *)
(***************************************************************************)
\* C24: testConnection, and with it connect(token), reports success only
\* on a /me request that carried the token now configured and succeeded
\* after that token was set: when connect(t2) replaces a configured token
\* t1, its success is never taken from the response to t1.
C24_SuccessOfCurrentToken ==
  [][(/\ last'.op = "connect"
      /\ connect(last'.token, ClientIV, last'.outcome, last'.auto)
      /\ configToken # NoToken
      /\ getToken(configToken, env).value # last'.token
      /\ last'.returned) =>
        (last'.requested /\ last'.sent = last'.token)]_vars

(***************************************************************************)
(* Properties of the wizard.                                               *)
(***************************************************************************)
\* C25: updateData(d) of a step with a validation function: once the
\* updates it queued are applied the step's data is its previous data
\* merged with d and its isValid is validationFn(d); neither update is
\* lost to the other.
C25_UpdateDataKeepsBoth ==
  [][\A d \in InputStepData, v \in BOOLEAN :
       UpdateData("a", d, TRUE, v) =>
         /\ wizard'.steps[1].data = mergeData(wizard.steps[1].data, d)
         /\ wizard'.steps[1].isValid = v]_vars

\* C26: in every state of a mounted wizard, the initial and a restored
\* state included, canGoNext says that the current step is valid or
\* optional, canGoPrevious that currentStepIndex > 0, progress is 100 *
\* completed steps / steps, and isCompleted says that every step is
\* completed or optional.
C26_DerivedFieldsAgree ==
  wizardEffect # "unmounted" =>
    /\ (wizard.canGoNext = "true")
         <=> (\/ wizard.steps[wizard.currentStepIndex + 1].isValid
              \/ wizard.steps[wizard.currentStepIndex + 1].isOptional = "true")
    /\ wizard.canGoPrevious <=> wizard.currentStepIndex > 0
    /\ wizard.progress * Len(wizard.steps)
         = 100 * Cardinality({i \in 1..Len(wizard.steps) :
                                wizard.steps[i].isCompleted})
    /\ wizard.isCompleted
         <=> \A i \in 1..Len(wizard.steps) :
               \/ wizard.steps[i].isCompleted
               \/ wizard.steps[i].isOptional = "true"

\* C27: with persistState, once resetWizard() was called and the render
\* and the effect after it have run, local storage holds no entry under
\* storageKey and the wizard is at step 0 with every step neither
\* completed nor valid.
C27_ResetClearsStorage ==
  (wizardLast = "resetWizard" /\ wizardEffect = "idle"
     /\ wizardConfig.persistState) =>
    /\ wizardStorage = NoSaved
    /\ wizard.currentStepIndex = 0
    /\ \A i \in 1..Len(wizard.steps) :
         ~wizard.steps[i].isCompleted /\ ~wizard.steps[i].isValid

\* C29: in every interleaving of the hook's operations, a connect or
\* testConnection call in flight when disconnect() runs included, after
\* disconnect() and without a later call of connect or testConnection the
\* hook keeps isConnected = false and connectionResult = null, and
\* 'figma-token' stays absent from local storage.
C29_DisconnectHolds ==
  disconnected =>
    /\ ~hook.isConnected
    /\ hook.connectionResult = initialState.connectionResult
    /\ storage = NoItem

====
